---- MODULE Spec2Model ----
(***************************************************************************)
(* Vault transaction orchestration of the ARGUS wallet                     *)
(* (src/src/utils/squads.ts): multisig provisioning by seed rolling        *)
(* (createSquad), transaction index allocation (getNextTransactionIndex)   *)
(* and the vault-transaction + proposal builders (createTransferProposal,  *)
(* createSwapProposal), run against a ledger whose read path may trail the *)
(* chain.                                                                   *)
(***************************************************************************)
EXTENDS Integers, Sequences, FiniteSets, TLC

(***************************************************************************)
(* Bounds of the model                                                     *)
(***************************************************************************)
\* createSquad calls in one behaviour
MaxCalls == 2
\* network failures (a send that throws although the transaction would
\* succeed, a confirmation that times out) in one behaviour
MaxFaults == 1
\* getNextTransactionIndex / builder calls in one behaviour
MaxRounds == 2

(***************************************************************************)
(* Program constants of createSquad                                        *)
(***************************************************************************)
MAX_ATTEMPTS == 10
\* let verifyRetries = 10
VERIFY_RETRIES == 10
\* let retries = 5
RETRIES_6014 == 5
\* balance < 0.01 * 1e9
MIN_CREATOR_LAMPORTS == 10000000

(***************************************************************************)
(* Program constants of getNextTransactionIndex and of the builders        *)
(***************************************************************************)
\* for (let offset = 0; offset < 10; offset++)
PROBE_LIMIT == 10
\* let retries = 15
POLL_RETRIES == 15

SQUADS_PROGRAM_ID == "SQDS4ep65T869zMMBKyuUq6aD6EgTu8psMjkvj52pCf"
SYSTEM_PROGRAM_ID == "11111111111111111111111111111111"

\* the owner whose key seeds the create keys, and the second members
Creator == "A"
Members == {"B1", "B2"}
\* the (member2, threshold) pairs createSquad is called with
Requests == {<<"B1", 1>>, <<"B2", 2>>}
Balances == {MIN_CREATOR_LAMPORTS - 1, MIN_CREATOR_LAMPORTS}

\* seed indices; index i stands for the multisig address derived from the
\* create key of attempt i (seed[i % 32] ^= 0xFF of the owner's key bytes)
Attempts == 0 .. (MAX_ATTEMPTS - 1)

\* how many of the first addresses an unrelated (system-owned) account
\* occupies before the first call; the last of them may not be visible yet
ZombiePrefixes == {0, 1, MAX_ATTEMPTS - 1, MAX_ATTEMPTS}

getMultisigPda(i) == <<"multisig", Creator, i>>
getVaultPda(multisigPda) == <<"vault", multisigPda, 0>>

AllPermissions == {"Initiate", "Vote", "Execute"}
VoteInitiate == {"Vote", "Initiate"}

\* const members = [{creator, Permissions.all()}, {member2, [Vote, Initiate]}]
MembersOf(member2) ==
    << [key |-> Creator, permissions |-> AllPermissions],
       [key |-> member2, permissions |-> VoteInitiate] >>

NoAccount == [owner |-> "none", members |-> << >>, threshold |-> 0]
ZombieAccount == [owner |-> SYSTEM_PROGRAM_ID, members |-> << >>, threshold |-> 0]
\* the account multisigCreateV2 initialises from args {threshold, members}
MultisigAccount(member2, threshold) ==
    [owner |-> SQUADS_PROGRAM_ID, members |-> MembersOf(member2), threshold |-> threshold]

NoTx == [member2 |-> "none", threshold |-> 0]
NoResult == [kind |-> "none", signature |-> "", multisigPda |-> << >>, vaultPda |-> << >>, error |-> ""]
Returned(signature, i) ==
    [kind |-> "ok", signature |-> signature, multisigPda |-> getMultisigPda(i),
     vaultPda |-> getVaultPda(getMultisigPda(i)), error |-> ""]
Thrown(e) ==
    [kind |-> "error", signature |-> "", multisigPda |-> << >>, vaultPda |-> << >>, error |-> e]

VARIABLES
    accounts,       \* chain: the account at the multisig address of each seed index
    visible,        \* read path: whether getAccountInfo already serves that account
    inflight,       \* creation transactions submitted and not yet landed, per address
    sqPc,           \* position of the running createSquad call
    attempt,        \* i of the for loop
    sqArgs,         \* member2, threshold of the running call
    txStatus,       \* the awaited creation transaction: none, inflight, ok, err
    verifyRetries,  \* verifyRetries of the visibility poll
    retries,        \* retries of the error 6014 ownership poll
    lastError,      \* lastError
    sqResult,       \* what the call returned or threw
    seenSquads,     \* seed indices at which a read of this call returned a Squads-owned account
    skipped,        \* seed indices this call gave up as foreign or unverifiable
    sawCreated,     \* a visibility poll of this call returned the new account
    provisioned,    \* per second member: the address the first returning call gave
    sqCalls,        \* createSquad calls started
    sqFaults        \* network failures so far

sqVars == << accounts, visible, inflight, sqPc, attempt, sqArgs, txStatus, verifyRetries,
             retries, lastError, sqResult, seenSquads, skipped, sawCreated, provisioned,
             sqCalls, sqFaults >>

VARIABLES
    msVisible,        \* read path: whether getAccountInfo serves the parent multisig account
    txIndex,          \* chain: multisig.transactionIndex; vault transactions 1..txIndex exist
    visIndex,         \* read path: the transactionIndex the multisig read returns
    visTop,           \* read path: vault transaction accounts 1..visTop are served
    proposals,        \* chain: indices that have a proposal account
    lateTxs,          \* writes whose confirmation timed out and that have not landed yet
    prPc,             \* position of the running allocator / builder call
    currentIndex,     \* currentIndex of getNextTransactionIndex
    offset,           \* offset of the probe loop
    probes,           \* the probes of the running allocation: index and whether an account was returned
    callKind,         \* transfer or swap
    inRound,          \* the builder was given the index the allocator just returned
    transactionIndex, \* transactionIndex argument of the builder
    pollRetries,      \* retries of the builder's visibility poll
    sawMultisig,      \* a poll of this call returned the multisig account
    amountLamports,   \* amountLamports of createTransferProposal
    vaultBalance,     \* vaultBalance as read, NotRead before
    vaultTx,          \* the vault transaction write of this call: none, failed, inflight, ok, err
    proposalTx,       \* the proposal write of this call: none, failed, inflight, ok, err
    sent,             \* the writes this call submitted, in order
    prResult,         \* what the call returned or threw
    lastSuccess,      \* index of the latest earlier round whose builder call returned, 0 if none
    orphans,          \* indices whose vault transaction was created and whose proposal send failed
    prRounds,         \* calls started
    prFaults          \* network failures so far

prChain == << txIndex, proposals, lateTxs >>
prRead == << msVisible, visIndex, visTop >>
allocVars == << currentIndex, offset, probes >>
buildVars == << callKind, inRound, transactionIndex, pollRetries, sawMultisig, amountLamports,
                vaultBalance, vaultTx, proposalTx, sent >>
histVars == << lastSuccess, orphans, prRounds, prFaults >>
prVars == << prChain, prRead, prPc, allocVars, buildVars, prResult, histVars >>

VARIABLES
    swapInstructions,       \* swapInstructions argument of createSwapProposal
    asmPc,                  \* position in the assembly part of createSwapProposal
    allInstructions,        \* allInstructions
    ephemeralSignersNeeded, \* ephemeralSignersNeeded
    seenSigners,            \* seenSigners
    vaultTxArgs             \* what vaultTransactionCreate was called with

asmVars == << swapInstructions, asmPc, allInstructions, ephemeralSignersNeeded, seenSigners,
              vaultTxArgs >>

VARIABLES
    exPc,          \* position of the running executeSwap / executeSwapJito call
    exEntry,       \* the function the caller called: standard or jito
    txValid,       \* whether swapTx.transaction deserializes
    exSignature,   \* signature, once there is one
    confirmation,  \* the confirmTransaction promise: none, pending, ok, err, rejected
    valueErr,      \* confirmation.value.err of the resolved confirmTransaction promise
    rejection,     \* the message the confirmTransaction promise rejected with
    settled,       \* the promises of the race in the order they settled
    raceWinner,    \* the promise whose outcome Promise.race took
    relayOffers,   \* relay endpoints the transaction was posted to, in order
    relayAccepted, \* the endpoint that set sent = true, 0 if none
    direct,        \* the direct sendRawTransaction: none, sent, threw
    elapsed,       \* Date.now() - startTime, in ms
    polls,         \* getSignatureStatus calls of the polling loop
    lastStatus,    \* what the latest getSignatureStatus call gave
    pollEnd,       \* how the polling loop was left: none, status, expired
    fellBack,      \* executeSwapJito's catch called executeSwap
    exResult,      \* the SwapResult returned
    exCalls        \* calls started

raceVars == << confirmation, valueErr, rejection, settled, raceWinner >>
jitoVars == << relayOffers, relayAccepted, direct, elapsed, polls, lastStatus, pollEnd, fellBack >>
exVars == << exPc, exEntry, txValid, exSignature, raceVars, jitoVars, exResult, exCalls >>

VARIABLES
    espPc,                       \* position of the running executeSwapProposal call
    addressLookupTableAddresses, \* its argument: per address, what the fetch of the table does
    altResults,                  \* the promises of altPromises once settled, "pending" before
    addressLookupTableAccounts,  \* addressLookupTableAccounts
    execution,                   \* the vaultTransactionExecute call: none, ok, threw
    espResult                    \* what the call returned or threw

espVars == << espPc, addressLookupTableAddresses, altResults, addressLookupTableAccounts,
              execution, espResult >>

VARIABLES
    apiPc,       \* position of the running requestServerApproval call
    apiResponse, \* res of the fetch: ok, whether the body is JSON, and the body
    apiResult    \* what the call returned or raised

apiVars == << apiPc, apiResponse, apiResult >>

VARIABLES
    owner,        \* creator.publicKey: the 32 key bytes of the owner
    seedPc,       \* position of the seed-rolling loop of createSquad
    seedI,        \* i of the for loop
    seed,         \* the seed array of the current iteration
    walked,       \* seeds derived by the running call, in order
    previousWalk, \* seeds derived by the previous call for the same owner
    seedCalls     \* calls made so far

seedVars == << owner, seedPc, seedI, seed, walked, previousWalk, seedCalls >>

VARIABLES
    fbPc,         \* position of the running executeSwapWithFallback call
    ultraTx,      \* the signed Ultra transaction: none, handed, refused, executed, failed, expired
    legacyTx,     \* the legacy transaction: none, submitted, executed, failed, expired
    ultraOutcome, \* ultraResult, what executeUltraSwapFull returned
    requests,     \* the requests the call made, in order
    fbResult,     \* the SwapResult returned
    fbCalls       \* calls started

fbVars == << fbPc, ultraTx, legacyTx, ultraOutcome, requests, fbResult, fbCalls >>

VARIABLES
    subscriptions,            \* the subscriptions Map, as its set of entries
    listeners,                \* the listeners registered on the connection
    nextClientSubscriptionId, \* the id the connection gives the next listener
    replaced                  \* ids a re-subscription removed

subVars == << subscriptions, listeners, nextClientSubscriptionId, replaced >>

\* executeGhostTransfer
VARIABLES
    ghostPc,            \* where the call stands
    toAddressOk,        \* new PublicKey(toAddress) did not throw
    ghostAmount,        \* config.amount
    isUsdc,             \* config.isUsdc
    privateBalance,     \* the private balance read, NotRead before
    shieldSignature,    \* depositResult?.tx is set
    clientCalls,        \* deposit and withdraw calls made on the client, in order
    depositOutcome,     \* "none", "resolved", "threw"
    ghostResult         \* the GhostTransferResult

ghostVars == << ghostPc, toAddressOk, ghostAmount, isUsdc, privateBalance, shieldSignature,
                clientCalls, depositOutcome, ghostResult >>

vars == << sqVars, prVars, asmVars, exVars, espVars, apiVars, seedVars, fbVars, subVars, ghostVars >>

\* what the steps of one component leave alone
outsideSquad == << prVars, asmVars, exVars, espVars, apiVars, seedVars, fbVars, subVars, ghostVars >>
outsideProposal == << sqVars, asmVars, exVars, espVars, apiVars, seedVars, fbVars, subVars, ghostVars >>
outsideAssembly == << sqVars, prVars, exVars, espVars, apiVars, seedVars, fbVars, subVars, ghostVars >>
outsideExecution == << sqVars, prVars, asmVars, espVars, apiVars, seedVars, fbVars, subVars, ghostVars >>
outsideSwapProposal == << sqVars, prVars, asmVars, exVars, apiVars, seedVars, fbVars, subVars, ghostVars >>
outsideApproval == << sqVars, prVars, asmVars, exVars, espVars, seedVars, fbVars, subVars, ghostVars >>
outsideSeed == << sqVars, prVars, asmVars, exVars, espVars, apiVars, fbVars, subVars, ghostVars >>
outsideFallback == << sqVars, prVars, asmVars, exVars, espVars, apiVars, seedVars, subVars, ghostVars >>
outsideSubscriptions == << sqVars, prVars, asmVars, exVars, espVars, apiVars, seedVars, fbVars, ghostVars >>
outsideGhost == << sqVars, prVars, asmVars, exVars, espVars, apiVars, seedVars, fbVars, subVars >>

(***************************************************************************)
(* Read path                                                               *)
(***************************************************************************)
\* connection.getAccountInfo(multisigPda): null until the read path has
\* caught up with the account
getAccountInfo(i) == IF accounts[i].owner # "none" /\ visible[i] THEN accounts[i] ELSE NoAccount

\* the ownership test reduced to `if (existingInfo)`
IsSquadsOwned_AnyOwner(info) == info.owner # "none"

\* existingInfo && existingInfo.owner.toBase58() === SQUADS_PROGRAM_ID.toBase58()
IsSquadsOwned(info) == info.owner # "none" /\ info.owner = SQUADS_PROGRAM_ID

\* errMsg.includes("6014") || errMsg.includes("already in use")
IsAlreadyInitialized(e) == e \in {"custom program error: 6014", "already in use"}

\* what sendTransaction (preflight on) can throw for a creation at address i
SendErrors(i) ==
    IF accounts[i].owner # "none"
    THEN {"already in use", "preflight failed"}
    ELSE {}

\* JSON.stringify(confirmation.value.err) of a creation that landed on an occupied address
OnChainErrors == {"Creation Transaction Failed on-chain: custom program error: 6014",
                  "Creation Transaction Failed on-chain: Custom 0"}

(***************************************************************************)
(* createSquad                                                             *)
(***************************************************************************)
SqInit ==
    /\ \E k \in ZombiePrefixes : \E lagging \in BOOLEAN :
         /\ accounts = [i \in Attempts |-> IF i < k THEN ZombieAccount ELSE NoAccount]
         /\ visible = [i \in Attempts |-> i < k /\ (i + 1 < k \/ ~lagging)]
    /\ inflight = [i \in Attempts |-> NoTx]
    /\ sqPc = "idle"
    /\ attempt = 0
    /\ sqArgs = NoTx
    /\ txStatus = "none"
    /\ verifyRetries = 0
    /\ retries = 0
    /\ lastError = ""
    /\ sqResult = NoResult
    /\ seenSquads = {}
    /\ skipped = {}
    /\ sawCreated = FALSE
    /\ provisioned = [m \in Members |-> << >>]
    /\ sqCalls = 0
    /\ sqFaults = 0

\* the end of one loop iteration without a return: `continue`, or the fall
\* through of an occupied address; after the last index the final throw
\* `throw lastError || new Error("Failed to find a valid Vault slot ...")`
ContinueLoop(err) ==
    IF attempt + 1 < MAX_ATTEMPTS
    THEN /\ attempt' = attempt + 1
         /\ sqPc' = "check"
         /\ sqResult' = sqResult
    ELSE /\ attempt' = attempt + 1
         /\ sqPc' = "done"
         /\ sqResult' = Thrown(IF err # "" THEN err ELSE "Failed to find a valid Vault slot")

\* catch (e): lastError = e; error 6014 starts the ownership poll, anything
\* else continues with the next index
Catch(e) ==
    /\ lastError' = e
    /\ IF IsAlreadyInitialized(e)
       THEN /\ sqPc' = "verify6014"
            /\ retries' = RETRIES_6014
            /\ UNCHANGED << attempt, sqResult >>
       ELSE /\ ContinueLoop(e)
            /\ UNCHANGED retries

\* createSquad(connection, creator, member2, threshold): the balance check
createSquad(member2, threshold, balance) ==
    /\ sqPc = "idle"
    /\ sqCalls < MaxCalls
    /\ sqCalls' = sqCalls + 1
    /\ sqArgs' = [member2 |-> member2, threshold |-> threshold]
    /\ attempt' = 0
    /\ lastError' = ""
    /\ seenSquads' = {}
    /\ skipped' = {}
    /\ sawCreated' = FALSE
    /\ txStatus' = "none"
    /\ IF balance < MIN_CREATOR_LAMPORTS
       THEN /\ sqPc' = "done"
            /\ sqResult' = Thrown("Insufficient funds")
       ELSE /\ sqPc' = "check"
            /\ sqResult' = NoResult
    /\ UNCHANGED << accounts, visible, inflight, verifyRetries, retries, provisioned, sqFaults >>
    /\ UNCHANGED outsideSquad

\* const existingInfo = await connection.getAccountInfo(multisigPda) and the
\* two ifs that follow it
CheckExisting ==
    /\ sqPc = "check"
    /\ LET existingInfo == getAccountInfo(attempt) IN
       /\ seenSquads' = IF existingInfo.owner = SQUADS_PROGRAM_ID
                        THEN seenSquads \cup {attempt} ELSE seenSquads
       /\ IF IsSquadsOwned(existingInfo)
          THEN /\ sqPc' = "done"
               /\ sqResult' = Returned("RECOVERED", attempt)
               /\ UNCHANGED << attempt, skipped >>
          ELSE IF existingInfo.owner = "none"
          THEN /\ sqPc' = "send"
               /\ UNCHANGED << attempt, sqResult, skipped >>
          ELSE /\ skipped' = skipped \cup {attempt}
               /\ ContinueLoop(lastError)
    /\ UNCHANGED << accounts, visible, inflight, sqArgs, txStatus, verifyRetries, retries,
                    lastError, sawCreated, provisioned, sqCalls, sqFaults >>
    /\ UNCHANGED outsideSquad

\* await connection.sendTransaction(tx, { skipPreflight: false }) accepted
SendCreate ==
    /\ sqPc = "send"
    /\ inflight' = [inflight EXCEPT ![attempt] = sqArgs]
    /\ txStatus' = "inflight"
    /\ sqPc' = "confirm"
    /\ UNCHANGED << accounts, visible, attempt, sqArgs, verifyRetries, retries, lastError,
                    sqResult, seenSquads, skipped, sawCreated, provisioned, sqCalls, sqFaults >>
    /\ UNCHANGED outsideSquad

\* sendTransaction throws: the preflight simulation rejects the creation
SendCreateRejected ==
    /\ sqPc = "send"
    /\ \E e \in SendErrors(attempt) :
         /\ Catch(e)
         /\ skipped' = IF IsAlreadyInitialized(e) THEN skipped ELSE skipped \cup {attempt}
    /\ UNCHANGED << accounts, visible, inflight, sqArgs, txStatus, verifyRetries,
                    seenSquads, sawCreated, provisioned, sqCalls, sqFaults >>
    /\ UNCHANGED outsideSquad

\* sendTransaction throws for a reason of the network
SendCreateFails ==
    /\ sqPc = "send"
    /\ sqFaults < MaxFaults
    /\ sqFaults' = sqFaults + 1
    /\ Catch("failed to send transaction")
    /\ skipped' = skipped \cup {attempt}
    /\ UNCHANGED << accounts, visible, inflight, sqArgs, txStatus, verifyRetries,
                    seenSquads, sawCreated, provisioned, sqCalls >>
    /\ UNCHANGED outsideSquad

\* the chain processes a submitted creation: the account is initialised when
\* the address is free, the transaction fails when it is in use
LandCreate(i) ==
    /\ inflight[i] # NoTx
    /\ inflight' = [inflight EXCEPT ![i] = NoTx]
    /\ IF accounts[i].owner = "none"
       THEN /\ accounts' = [accounts EXCEPT ![i] =
                               MultisigAccount(inflight[i].member2, inflight[i].threshold)]
            /\ visible' = [visible EXCEPT ![i] = FALSE]
       ELSE UNCHANGED << accounts, visible >>
    /\ txStatus' = IF sqPc = "confirm" /\ attempt = i
                   THEN (IF accounts[i].owner = "none" THEN "ok" ELSE "err")
                   ELSE txStatus
    /\ UNCHANGED << sqPc, attempt, sqArgs, verifyRetries, retries, lastError, sqResult,
                    seenSquads, skipped, sawCreated, provisioned, sqCalls, sqFaults >>
    /\ UNCHANGED outsideSquad

\* a submitted creation nobody awaits any more expires without landing
DropCreate(i) ==
    /\ inflight[i] # NoTx
    /\ ~(sqPc = "confirm" /\ attempt = i)
    /\ inflight' = [inflight EXCEPT ![i] = NoTx]
    /\ UNCHANGED << accounts, visible, sqPc, attempt, sqArgs, txStatus, verifyRetries, retries,
                    lastError, sqResult, seenSquads, skipped, sawCreated, provisioned,
                    sqCalls, sqFaults >>
    /\ UNCHANGED outsideSquad

\* the turns of a running poll loop, counted in retries left, before which
\* the read path may catch up: before the first read and before the last
IndexTurns(first) == {first, 1}

\* the read path catches up with the account the running call looks at
IndexAccount ==
    /\ sqPc \in {"check", "send", "confirm", "verify", "verify6014"}
    /\ sqPc = "verify" => verifyRetries \in IndexTurns(VERIFY_RETRIES)
    /\ sqPc = "verify6014" => retries \in IndexTurns(RETRIES_6014)
    /\ accounts[attempt].owner # "none"
    /\ ~visible[attempt]
    /\ visible' = [visible EXCEPT ![attempt] = TRUE]
    /\ UNCHANGED << accounts, inflight, sqPc, attempt, sqArgs, txStatus, verifyRetries, retries,
                    lastError, sqResult, seenSquads, skipped, sawCreated, provisioned,
                    sqCalls, sqFaults >>
    /\ UNCHANGED outsideSquad

\* const confirmation = await connection.confirmTransaction(signature, "confirmed");
\* if (confirmation.value.err) throw ...
ConfirmCreate ==
    /\ sqPc = "confirm"
    /\ txStatus \in {"ok", "err"}
    /\ IF txStatus = "ok"
       THEN /\ sqPc' = "verify"
            /\ verifyRetries' = VERIFY_RETRIES
            /\ UNCHANGED << attempt, retries, lastError, sqResult, skipped >>
       ELSE /\ \E e \in OnChainErrors :
                 /\ Catch(e)
                 /\ skipped' = IF IsAlreadyInitialized(e) THEN skipped ELSE skipped \cup {attempt}
            /\ UNCHANGED verifyRetries
    /\ UNCHANGED << accounts, visible, inflight, sqArgs, txStatus, seenSquads, sawCreated,
                    provisioned, sqCalls, sqFaults >>
    /\ UNCHANGED outsideSquad

\* confirmTransaction throws (timeout, expired blockhash) while the creation
\* has not landed; the transaction stays submitted
ConfirmCreateTimeout ==
    /\ sqPc = "confirm"
    /\ txStatus = "inflight"
    /\ sqFaults < MaxFaults
    /\ sqFaults' = sqFaults + 1
    /\ Catch("Transaction was not confirmed")
    /\ skipped' = skipped \cup {attempt}
    /\ UNCHANGED << accounts, visible, inflight, sqArgs, txStatus, verifyRetries,
                    seenSquads, sawCreated, provisioned, sqCalls >>
    /\ UNCHANGED outsideSquad

\* the visibility poll going on until it sees the account
CreationVerified_Unbounded(info, left) == info.owner # "none"

\* whether the visibility poll lets the call report the creation
CreationVerified(info, left) == info.owner # "none" \/ left = 0

\* one turn of `while (verifyRetries > 0)`: a read that returns the account
\* breaks; the loop's exit, by break or by exhaustion, reaches
\* `return { signature, multisigPda, vaultPda }`
VerifyCreated ==
    /\ sqPc = "verify"
    /\ verifyRetries > 0
    /\ LET info == getAccountInfo(attempt) IN
       /\ sawCreated' = (sawCreated \/ info.owner # "none")
       /\ verifyRetries' = IF info.owner # "none" THEN verifyRetries ELSE verifyRetries - 1
       /\ IF CreationVerified(info, verifyRetries')
          THEN /\ sqPc' = "done"
               /\ sqResult' = Returned("SIGNATURE", attempt)
          ELSE UNCHANGED << sqPc, sqResult >>
    /\ UNCHANGED << accounts, visible, inflight, attempt, sqArgs, txStatus, retries, lastError,
                    seenSquads, skipped, provisioned, sqCalls, sqFaults >>
    /\ UNCHANGED outsideSquad

\* one turn of the error 6014 poll `while (retries > 0)`: a read that returns
\* a Squads-owned account verifies and returns RECOVERED_6014; when the
\* retries run out the index is skipped
Verify6014 ==
    /\ sqPc = "verify6014"
    /\ retries > 0
    /\ LET check == getAccountInfo(attempt) IN
       /\ seenSquads' = IF check.owner = SQUADS_PROGRAM_ID
                        THEN seenSquads \cup {attempt} ELSE seenSquads
       /\ IF IsSquadsOwned(check)
          THEN /\ sqPc' = "done"
               /\ sqResult' = Returned("RECOVERED_6014", attempt)
               /\ UNCHANGED << attempt, retries, skipped >>
          ELSE /\ retries' = retries - 1
               /\ IF retries - 1 = 0
                  THEN /\ skipped' = skipped \cup {attempt}
                       /\ ContinueLoop(lastError)
                  ELSE UNCHANGED << sqPc, attempt, sqResult, skipped >>
    /\ UNCHANGED << accounts, visible, inflight, sqArgs, txStatus, verifyRetries, lastError,
                    sawCreated, provisioned, sqCalls, sqFaults >>
    /\ UNCHANGED outsideSquad

\* the call is over; the caller keeps the first address it was given
SqReturn ==
    /\ sqPc = "done"
    /\ sqPc' = "idle"
    /\ provisioned' = IF sqResult.kind = "ok" /\ provisioned[sqArgs.member2] = << >>
                      THEN [provisioned EXCEPT ![sqArgs.member2] = sqResult.multisigPda]
                      ELSE provisioned
    /\ sqResult' = NoResult
    /\ attempt' = 0
    /\ sqArgs' = NoTx
    /\ txStatus' = "none"
    /\ verifyRetries' = 0
    /\ retries' = 0
    /\ lastError' = ""
    /\ seenSquads' = {}
    /\ skipped' = {}
    /\ sawCreated' = FALSE
    /\ UNCHANGED << accounts, visible, inflight, sqCalls, sqFaults >>
    /\ UNCHANGED outsideSquad

SqNext ==
    \/ \E r \in Requests, b \in Balances : createSquad(r[1], r[2], b)
    \/ CheckExisting
    \/ SendCreate
    \/ SendCreateRejected
    \/ SendCreateFails
    \/ \E i \in Attempts : LandCreate(i)
    \/ \E i \in Attempts : DropCreate(i)
    \/ IndexAccount
    \/ ConfirmCreate
    \/ ConfirmCreateTimeout
    \/ VerifyCreated
    \/ Verify6014
    \/ SqReturn


(***************************************************************************)
(* getNextTransactionIndex, createTransferProposal, createSwapProposal     *)
(* against one multisig                                                    *)
(***************************************************************************)
NotRead == -1
\* lamports a vault holds and a transfer asks for
Lamports == {0, 1, 2}
Amounts == {1, 2}
NoCall == [kind |-> "none", value |-> 0, error |-> ""]
PrReturned(v) == [kind |-> "ok", value |-> v, error |-> ""]
PrThrown(e) == [kind |-> "error", value |-> 0, error |-> e]

\* transaction counts the multisig starts with; the read of the counter may
\* trail them
InitialIndexes == {0, PROBE_LIMIT}

\* the builder and allocator locals of a call that is not running
PrQuiet ==
    /\ prPc = "idle"
    /\ currentIndex = 0
    /\ offset = 0
    /\ probes = << >>
    /\ callKind = "none"
    /\ inRound = FALSE
    /\ transactionIndex = 0
    /\ pollRetries = 0
    /\ sawMultisig = FALSE
    /\ amountLamports = 0
    /\ vaultBalance = NotRead
    /\ vaultTx = "none"
    /\ proposalTx = "none"
    /\ sent = << >>
    /\ prResult = NoCall

PrInit ==
    /\ \E base \in InitialIndexes : \E seen \in {0, base} :
         /\ txIndex = base
         /\ visIndex = seen
         /\ visTop = base
         /\ proposals = 1 .. base
    /\ msVisible \in BOOLEAN
    /\ lateTxs = {}
    /\ PrQuiet
    /\ lastSuccess = 0
    /\ orphans = {}
    /\ prRounds = 0
    /\ prFaults = 0

\* const nextIndex = currentIndex + 1n, started from the wrong end
nextIndex_Current(c) == c

\* const nextIndex = currentIndex + 1n
nextIndex(c) == c + 1

\* const txAccount = await connection.getAccountInfo(vaultTransactionPda)
getTransactionAccount(index) == index >= 1 /\ index <= visTop

\* getNextTransactionIndex: the read of the multisig account and its counter
getNextTransactionIndex ==
    /\ prPc = "idle"
    /\ prRounds < MaxRounds
    /\ prRounds' = prRounds + 1
    /\ IF ~msVisible
       THEN /\ prPc' = "done"
            /\ prResult' = PrThrown("Multisig account not found")
            /\ UNCHANGED allocVars
       ELSE /\ prPc' = "probe"
            /\ currentIndex' = visIndex
            /\ offset' = 0
            /\ probes' = << >>
            /\ UNCHANGED prResult
    /\ UNCHANGED << prChain, prRead, buildVars, lastSuccess, orphans, prFaults >>
    /\ UNCHANGED outsideProposal

\* one turn of `for (let offset = 0; offset < 10; offset++)`: the first
\* index whose probe returns no account is returned; after the last turn
\* the throw
ProbeIndex ==
    /\ prPc = "probe"
    /\ offset < PROBE_LIMIT
    /\ LET testIndex == nextIndex(currentIndex) + offset
           txAccount == getTransactionAccount(testIndex)
       IN /\ probes' = Append(probes, [index |-> testIndex, found |-> txAccount])
          /\ IF ~txAccount
             THEN /\ prPc' = "allocated"
                  /\ prResult' = PrReturned(testIndex)
                  /\ UNCHANGED offset
             ELSE /\ offset' = offset + 1
                  /\ IF offset + 1 < PROBE_LIMIT
                     THEN UNCHANGED << prPc, prResult >>
                     ELSE /\ prPc' = "done"
                          /\ prResult' = PrThrown("Could not find free transaction index after 10 attempts")
    /\ UNCHANGED << prChain, prRead, currentIndex, buildVars, histVars >>
    /\ UNCHANGED outsideProposal

\* the builders' entry: createTransferProposal(..., amountLamports,
\* transactionIndex) or createSwapProposal(..., transactionIndex), called
\* with the index just allocated or, on its own, with the caller's index
StartBuilder(kind, index, amount, round) ==
    /\ callKind' = kind
    /\ inRound' = round
    /\ transactionIndex' = index
    /\ amountLamports' = IF kind = "transfer" THEN amount ELSE 0
    /\ pollRetries' = POLL_RETRIES
    /\ sawMultisig' = FALSE
    /\ vaultBalance' = NotRead
    /\ vaultTx' = "none"
    /\ proposalTx' = "none"
    /\ sent' = << >>
    /\ prPc' = "poll"
    /\ prResult' = NoCall

createProposalInRound(kind, amount) ==
    /\ prPc = "allocated"
    /\ StartBuilder(kind, prResult.value, amount, TRUE)
    /\ UNCHANGED << prChain, prRead, allocVars, histVars >>
    /\ UNCHANGED outsideProposal

createProposalAlone(kind, index, amount) ==
    /\ prPc = "idle"
    /\ prRounds < MaxRounds
    /\ prRounds' = prRounds + 1
    /\ StartBuilder(kind, index, amount, FALSE)
    /\ UNCHANGED << prChain, prRead, allocVars, lastSuccess, orphans, prFaults >>
    /\ UNCHANGED outsideProposal

\* the state after the poll loop: createTransferProposal reads the balance,
\* createSwapProposal assembles its instructions and goes on to the writes
AfterPoll(kind) == IF kind = "transfer" THEN "balance" ELSE "sendVault"

\* whether the poll loop is left: `if (info) break` or retries used up
PollEnds(info, left) == info \/ left = 0

\* one turn of `while (retries > 0)` of the builders' SAFETY CHECK
PollMultisig ==
    /\ prPc = "poll"
    /\ pollRetries > 0
    /\ LET info == msVisible IN
       /\ sawMultisig' = info
       /\ pollRetries' = IF info THEN pollRetries ELSE pollRetries - 1
       /\ prPc' = IF PollEnds(info, pollRetries') THEN AfterPoll(callKind) ELSE prPc
    /\ UNCHANGED << prChain, prRead, allocVars, callKind, inRound, transactionIndex,
                    amountLamports, vaultBalance, vaultTx, proposalTx, sent,
                    prResult, histVars >>
    /\ UNCHANGED outsideProposal

\* if (vaultBalance < amountLamports), off by one
InsufficientBalance_OrEqual(balance, amount) == balance <= amount

\* if (vaultBalance < amountLamports)
InsufficientBalance(balance, amount) == balance < amount

\* const vaultBalance = await connection.getBalance(vaultPda) and the check
CheckBalance(balance) ==
    /\ prPc = "balance"
    /\ vaultBalance' = balance
    /\ IF InsufficientBalance(balance, amountLamports)
       THEN /\ prPc' = "done"
            /\ prResult' = PrThrown("Insufficient vault balance")
       ELSE /\ prPc' = "sendVault"
            /\ UNCHANGED prResult
    /\ UNCHANGED << prChain, prRead, allocVars, callKind, inRound, transactionIndex, pollRetries,
                    sawMultisig, amountLamports, vaultTx, proposalTx, sent,
                    histVars >>
    /\ UNCHANGED outsideProposal

\* the states of the ledger a request may be answered from lie between what
\* the read path has caught up with and the chain
\* vaultTransactionCreate passes the preflight on one of them
VaultCreateMayPass(index) == index >= visIndex + 1 /\ index <= txIndex + 1
\* and is rejected on one of them
VaultCreateMayFail(index) == ~(visIndex = txIndex /\ index = txIndex + 1) \/ ~msVisible
\* proposalCreate passes the preflight on one of them
ProposalCreateMayPass(index) ==
    index >= 1 /\ index <= txIndex /\ (index \notin proposals \/ index > visIndex)
\* and is rejected on one of them
ProposalCreateMayFail(index) == index < 1 \/ index > visIndex \/ index \in proposals \/ ~msVisible

\* the chain's verdict on a landing vaultTransactionCreate: the new
\* transaction takes the index after the counter
VaultCreateLands(index) == index = txIndex + 1
\* and on a landing proposalCreate
ProposalCreateLands(index) == index >= 1 /\ index <= txIndex /\ index \notin proposals

\* const vaultTxSig = await connection.sendRawTransaction(vaultTx.serialize(), ...)
SendVaultTx ==
    /\ prPc = "sendVault"
    /\ VaultCreateMayPass(transactionIndex)
    /\ vaultTx' = "inflight"
    /\ sent' = Append(sent, [write |-> "vaultTransactionCreate", index |-> transactionIndex])
    /\ prPc' = "confirmVault"
    /\ UNCHANGED << prChain, prRead, allocVars, callKind, inRound, transactionIndex, pollRetries,
                    sawMultisig, amountLamports, vaultBalance, proposalTx,
                    prResult, histVars >>
    /\ UNCHANGED outsideProposal

\* sendRawTransaction throws: catch (e) { ...; throw e }
ThrowFromBuilder(e) ==
    /\ prPc' = "done"
    /\ prResult' = PrThrown(e)

\* the preflight rejects the vault transaction
SendVaultTxRejected ==
    /\ prPc = "sendVault"
    /\ VaultCreateMayFail(transactionIndex)
    /\ vaultTx' = "failed"
    /\ ThrowFromBuilder("Transaction simulation failed")
    /\ UNCHANGED << prChain, prRead, allocVars, callKind, inRound, transactionIndex, pollRetries,
                    sawMultisig, amountLamports, vaultBalance, proposalTx, sent,
                    histVars >>
    /\ UNCHANGED outsideProposal

\* the chain processes the awaited vault transaction
LandVaultTx ==
    /\ prPc = "confirmVault"
    /\ vaultTx = "inflight"
    /\ IF VaultCreateLands(transactionIndex)
       THEN /\ txIndex' = txIndex + 1
            /\ vaultTx' = "ok"
       ELSE /\ vaultTx' = "err"
            /\ UNCHANGED txIndex
    /\ UNCHANGED << proposals, lateTxs, prRead, prPc, allocVars, callKind, inRound,
                    transactionIndex, pollRetries, sawMultisig, amountLamports, vaultBalance,
                    proposalTx, sent, prResult, histVars >>
    /\ UNCHANGED outsideProposal

\* a confirmation that is not awaited
ConfirmationResolves_NotAwaited(status) == status \in {"inflight", "ok", "err"}

\* when `await connection.confirmTransaction(sig, 'confirmed')` resolves
ConfirmationResolves(status) == status \in {"ok", "err"}

\* await connection.confirmTransaction(vaultTxSig, 'confirmed'): its value
\* is not looked at
ConfirmVaultTx ==
    /\ prPc = "confirmVault"
    /\ ConfirmationResolves(vaultTx)
    /\ prPc' = "sendProposal"
    /\ UNCHANGED << prChain, prRead, allocVars, callKind, inRound, transactionIndex, pollRetries,
                    sawMultisig, amountLamports, vaultBalance, vaultTx, proposalTx, sent,
                    prResult, histVars >>
    /\ UNCHANGED outsideProposal

\* sendRawTransaction throws for a reason of the network
SendVaultTxFails ==
    /\ prPc = "sendVault"
    /\ prFaults < MaxFaults
    /\ prFaults' = prFaults + 1
    /\ vaultTx' = "failed"
    /\ ThrowFromBuilder("failed to send transaction")
    /\ UNCHANGED << prChain, prRead, allocVars, callKind, inRound, transactionIndex, pollRetries,
                    sawMultisig, amountLamports, vaultBalance, proposalTx, sent,
                    lastSuccess, orphans, prRounds >>
    /\ UNCHANGED outsideProposal

\* confirmTransaction(vaultTxSig) throws (timeout, expired blockhash) while
\* the vault transaction has not landed; it stays submitted
ConfirmVaultTxTimeout ==
    /\ prPc = "confirmVault"
    /\ vaultTx = "inflight"
    /\ prFaults < MaxFaults
    /\ prFaults' = prFaults + 1
    /\ lateTxs' = lateTxs \cup {[write |-> "vaultTransactionCreate", index |-> transactionIndex]}
    /\ ThrowFromBuilder("Transaction was not confirmed")
    /\ UNCHANGED << txIndex, proposals, prRead, allocVars, buildVars, lastSuccess, orphans, prRounds >>
    /\ UNCHANGED outsideProposal

\* const proposalTxSig = await connection.sendRawTransaction(proposalTx.serialize(), ...)
SendProposalTx ==
    /\ prPc = "sendProposal"
    /\ ProposalCreateMayPass(transactionIndex)
    /\ proposalTx' = "inflight"
    /\ sent' = Append(sent, [write |-> "proposalCreate", index |-> transactionIndex])
    /\ prPc' = "confirmProposal"
    /\ UNCHANGED << prChain, prRead, allocVars, callKind, inRound, transactionIndex, pollRetries,
                    sawMultisig, amountLamports, vaultBalance, vaultTx, prResult, histVars >>
    /\ UNCHANGED outsideProposal

\* the index is an orphan once its vault transaction exists and the proposal
\* send has thrown
OrphansAfterFailedProposal ==
    IF vaultTx = "ok" THEN orphans \cup {transactionIndex} ELSE orphans

\* the preflight rejects the proposal
SendProposalTxRejected ==
    /\ prPc = "sendProposal"
    /\ ProposalCreateMayFail(transactionIndex)
    /\ proposalTx' = "failed"
    /\ orphans' = OrphansAfterFailedProposal
    /\ ThrowFromBuilder("Transaction simulation failed")
    /\ UNCHANGED << prChain, prRead, allocVars, callKind, inRound, transactionIndex, pollRetries,
                    sawMultisig, amountLamports, vaultBalance, vaultTx, sent,
                    lastSuccess, prRounds, prFaults >>
    /\ UNCHANGED outsideProposal

\* sendRawTransaction of the proposal throws for a reason of the network
SendProposalTxFails ==
    /\ prPc = "sendProposal"
    /\ prFaults < MaxFaults
    /\ prFaults' = prFaults + 1
    /\ proposalTx' = "failed"
    /\ orphans' = OrphansAfterFailedProposal
    /\ ThrowFromBuilder("failed to send transaction")
    /\ UNCHANGED << prChain, prRead, allocVars, callKind, inRound, transactionIndex, pollRetries,
                    sawMultisig, amountLamports, vaultBalance, vaultTx, sent,
                    lastSuccess, prRounds >>
    /\ UNCHANGED outsideProposal

\* the chain processes the awaited proposal
LandProposalTx ==
    /\ prPc = "confirmProposal"
    /\ proposalTx = "inflight"
    /\ IF ProposalCreateLands(transactionIndex)
       THEN /\ proposals' = proposals \cup {transactionIndex}
            /\ proposalTx' = "ok"
       ELSE /\ proposalTx' = "err"
            /\ UNCHANGED proposals
    /\ UNCHANGED << txIndex, lateTxs, prRead, prPc, allocVars, callKind, inRound,
                    transactionIndex, pollRetries, sawMultisig, amountLamports, vaultBalance,
                    vaultTx, sent, prResult, histVars >>
    /\ UNCHANGED outsideProposal

\* await connection.confirmTransaction(proposalTxSig, 'confirmed');
\* return proposalTxSig
ConfirmProposalTx ==
    /\ prPc = "confirmProposal"
    /\ ConfirmationResolves(proposalTx)
    /\ prPc' = "done"
    /\ prResult' = PrReturned(transactionIndex)
    /\ UNCHANGED << prChain, prRead, allocVars, buildVars, histVars >>
    /\ UNCHANGED outsideProposal

\* confirmTransaction(proposalTxSig) throws while the proposal has not landed
ConfirmProposalTxTimeout ==
    /\ prPc = "confirmProposal"
    /\ proposalTx = "inflight"
    /\ prFaults < MaxFaults
    /\ prFaults' = prFaults + 1
    /\ lateTxs' = lateTxs \cup {[write |-> "proposalCreate", index |-> transactionIndex]}
    /\ ThrowFromBuilder("Transaction was not confirmed")
    /\ UNCHANGED << txIndex, proposals, prRead, allocVars, buildVars, lastSuccess, orphans, prRounds >>
    /\ UNCHANGED outsideProposal

\* a write whose confirmation timed out lands after its call is over
LandLateTx(tx) ==
    /\ tx \in lateTxs
    /\ prPc \in {"idle", "done"}
    /\ lateTxs' = lateTxs \ {tx}
    /\ IF tx.write = "vaultTransactionCreate"
       THEN /\ txIndex' = IF VaultCreateLands(tx.index) THEN txIndex + 1 ELSE txIndex
            /\ UNCHANGED proposals
       ELSE /\ proposals' = IF ProposalCreateLands(tx.index)
                            THEN proposals \cup {tx.index} ELSE proposals
            /\ UNCHANGED txIndex
    /\ UNCHANGED << prRead, prPc, allocVars, buildVars, prResult, histVars >>
    /\ UNCHANGED outsideProposal

\* or expires without landing
DropLateTx(tx) ==
    /\ tx \in lateTxs
    /\ prPc \in {"idle", "done"}
    /\ lateTxs' = lateTxs \ {tx}
    /\ UNCHANGED << txIndex, proposals, prRead, prPc, allocVars, buildVars, prResult, histVars >>
    /\ UNCHANGED outsideProposal

\* the read path catches up with the multisig account
CatchUpMultisig ==
    /\ ~msVisible
    /\ prPc = "poll" => pollRetries \in IndexTurns(POLL_RETRIES)
    /\ msVisible' = TRUE
    /\ UNCHANGED << visIndex, visTop, prChain, prPc, allocVars, buildVars, prResult, histVars >>
    /\ UNCHANGED outsideProposal

\* the read path catches up with the multisig's counter
CatchUpIndex ==
    /\ visIndex < txIndex
    /\ visIndex' = txIndex
    /\ UNCHANGED << msVisible, visTop, prChain, prPc, allocVars, buildVars, prResult, histVars >>
    /\ UNCHANGED outsideProposal

\* the read path catches up with the vault transaction accounts
CatchUpTransactions ==
    /\ visTop < txIndex
    /\ visTop' = txIndex
    /\ UNCHANGED << msVisible, visIndex, prChain, prPc, allocVars, buildVars, prResult, histVars >>
    /\ UNCHANGED outsideProposal

\* the call is over
PrReturn ==
    /\ prPc = "done"
    /\ prPc' = "idle"
    /\ currentIndex' = 0
    /\ offset' = 0
    /\ probes' = << >>
    /\ callKind' = "none"
    /\ inRound' = FALSE
    /\ transactionIndex' = 0
    /\ pollRetries' = 0
    /\ sawMultisig' = FALSE
    /\ amountLamports' = 0
    /\ vaultBalance' = NotRead
    /\ vaultTx' = "none"
    /\ proposalTx' = "none"
    /\ sent' = << >>
    /\ prResult' = NoCall
    /\ lastSuccess' = IF prResult.kind = "ok" /\ inRound THEN transactionIndex ELSE lastSuccess
    /\ UNCHANGED << prChain, prRead, orphans, prRounds, prFaults >>
    /\ UNCHANGED outsideProposal

PrNext ==
    \/ getNextTransactionIndex
    \/ ProbeIndex
    \/ \E k \in {"transfer", "swap"}, a \in Amounts : createProposalInRound(k, a)
    \/ \E k \in {"transfer", "swap"}, a \in Amounts : createProposalAlone(k, txIndex + 1, a)
    \/ PollMultisig
    \/ \E b \in Lamports : CheckBalance(b)
    \/ SendVaultTx
    \/ SendVaultTxRejected
    \/ SendVaultTxFails
    \/ LandVaultTx
    \/ ConfirmVaultTx
    \/ ConfirmVaultTxTimeout
    \/ SendProposalTx
    \/ SendProposalTxRejected
    \/ SendProposalTxFails
    \/ LandProposalTx
    \/ ConfirmProposalTx
    \/ ConfirmProposalTxTimeout
    \/ \E tx \in lateTxs : LandLateTx(tx)
    \/ \E tx \in lateTxs : DropLateTx(tx)
    \/ CatchUpMultisig
    \/ CatchUpIndex
    \/ CatchUpTransactions
    \/ PrReturn

(***************************************************************************)
(* createSwapProposal: instruction assembly and ephemeral signer count     *)
(***************************************************************************)
\* setup instructions in one bundle
MaxSetup == 2

VaultPda == "vault"
\* accounts Jupiter creates and closes during a swap
EphemeralKeys == {"W1", "W2"}

AccountMeta(pubkey, isSigner) == [pubkey |-> pubkey, isSigner |-> isSigner]

\* SwapInstructionData: programId, accounts, data (base64)
SwapInstructionData ==
    { [programId |-> "ComputeBudget", accounts |-> << >>, data |-> "ZDE="],
      [programId |-> "Token",
       accounts |-> << AccountMeta("W1", TRUE), AccountMeta(VaultPda, TRUE) >>,
       data |-> "ZDI="],
      [programId |-> "Jupiter",
       accounts |-> << AccountMeta(VaultPda, TRUE), AccountMeta(Creator, TRUE),
                       AccountMeta("W1", TRUE), AccountMeta("W2", FALSE) >>,
       data |-> "ZDM="],
      [programId |-> "Token",
       accounts |-> << AccountMeta("W2", TRUE), AccountMeta("W1", FALSE) >>,
       data |-> "ZDQ="] }

\* swapInstructions.cleanupInstruction absent
NoInstruction == [programId |-> "", accounts |-> << >>, data |-> ""]

\* the instruction lists of length up to n
InstructionLists(n) == UNION { [1 .. k -> SwapInstructionData] : k \in 0 .. n }

\* Buffer.from(ix.data, "base64")
Base64Decode(data) ==
    CASE data = "ZDE=" -> "d1"
      [] data = "ZDI=" -> "d2"
      [] data = "ZDM=" -> "d3"
      [] data = "ZDQ=" -> "d4"
      [] OTHER -> ""

\* convertSwapInstruction(ix)
convertSwapInstruction(ix) ==
    [programId |-> ix.programId,
     keys |-> [k \in 1 .. Len(ix.accounts) |->
                  AccountMeta(ix.accounts[k].pubkey, ix.accounts[k].isSigner)],
     data |-> Base64Decode(ix.data)]

\* the pushes of one group, put in front of what was assembled so far
PushAll_InFront(all, group) ==
    [k \in 1 .. Len(group) |-> convertSwapInstruction(group[k])] \o all

\* for (const ix of group) allInstructions.push(convertSwapInstruction(ix))
PushAll(all, group) ==
    all \o [k \in 1 .. Len(group) |-> convertSwapInstruction(group[k])]

\* if (swapInstructions.cleanupInstruction) allInstructions.push(...)
PushCleanup(all, cleanup) ==
    IF cleanup # NoInstruction THEN Append(all, convertSwapInstruction(cleanup)) ELSE all

\* the state of the signer count: ephemeralSignersNeeded and seenSigners
SignerCount(needed, seen) == [needed |-> needed, seen |-> seen]

\* the skips of the count without the one for the creator
IsNewEphemeralSigner_CreatorCounted(key, seen) ==
    /\ key.isSigner
    /\ key.pubkey # VaultPda
    /\ key.pubkey \notin seen

\* the four `continue`s: not a signer, the vault, the creator, already seen
IsNewEphemeralSigner(key, seen) ==
    /\ key.isSigner
    /\ key.pubkey # VaultPda
    /\ key.pubkey # Creator
    /\ key.pubkey \notin seen

\* for (const key of ix.keys) { ...; seenSigners.add(pubkeyStr); ephemeralSignersNeeded++ }
RECURSIVE CountKeys(_, _)
CountKeys(keys, count) ==
    IF keys = << >>
    THEN count
    ELSE CountKeys(Tail(keys),
                   IF IsNewEphemeralSigner(Head(keys), count.seen)
                   THEN SignerCount(count.needed + 1, count.seen \cup {Head(keys).pubkey})
                   ELSE count)

\* for (const ix of allInstructions) { for (const key of ix.keys) ... }
RECURSIVE CountInstructions(_, _)
CountInstructions(instructions, count) ==
    IF instructions = << >>
    THEN count
    ELSE CountInstructions(Tail(instructions), CountKeys(Head(instructions).keys, count))

NoVaultTxArgs == [ephemeralSigners |-> 0, payerKey |-> "", instructions |-> << >>]

NoSwapInstructions ==
    [computeBudgetInstructions |-> << >>, setupInstructions |-> << >>,
     swapInstruction |-> NoInstruction, cleanupInstruction |-> NoInstruction,
     otherInstructions |-> << >>]

\* the bundles createSwapProposal is called with
AsmInit ==
    /\ swapInstructions \in
         [computeBudgetInstructions : InstructionLists(1),
          setupInstructions : InstructionLists(MaxSetup),
          swapInstruction : SwapInstructionData,
          cleanupInstruction : SwapInstructionData \cup {NoInstruction},
          otherInstructions : InstructionLists(1)]
    /\ asmPc = "assemble"
    /\ allInstructions = << >>
    /\ ephemeralSignersNeeded = 0
    /\ seenSigners = {}
    /\ vaultTxArgs = NoVaultTxArgs

\* steps 1 to 5: the pushes into allInstructions
AssembleInstructions ==
    /\ asmPc = "assemble"
    /\ allInstructions' =
         PushAll(PushCleanup(Append(PushAll(PushAll(<< >>,
                                                    swapInstructions.computeBudgetInstructions),
                                            swapInstructions.setupInstructions),
                                    convertSwapInstruction(swapInstructions.swapInstruction)),
                             swapInstructions.cleanupInstruction),
                 swapInstructions.otherInstructions)
    /\ asmPc' = "count"
    /\ UNCHANGED << swapInstructions, ephemeralSignersNeeded, seenSigners, vaultTxArgs >>
    /\ UNCHANGED outsideAssembly

\* the count of the ephemeral signers
CountEphemeralSigners ==
    /\ asmPc = "count"
    /\ LET count == CountInstructions(allInstructions, SignerCount(0, {})) IN
         /\ ephemeralSignersNeeded' = count.needed
         /\ seenSigners' = count.seen
    /\ asmPc' = "message"
    /\ UNCHANGED << swapInstructions, allInstructions, vaultTxArgs >>
    /\ UNCHANGED outsideAssembly

\* new TransactionMessage({ payerKey: vaultPda, instructions: allInstructions })
\* and multisig.transactions.vaultTransactionCreate({ ephemeralSigners:
\* ephemeralSignersNeeded, transactionMessage })
BuildVaultTransaction ==
    /\ asmPc = "message"
    /\ vaultTxArgs' = [ephemeralSigners |-> ephemeralSignersNeeded,
                       payerKey |-> VaultPda,
                       instructions |-> allInstructions]
    /\ asmPc' = "built"
    /\ UNCHANGED << swapInstructions, allInstructions, ephemeralSignersNeeded, seenSigners >>
    /\ UNCHANGED outsideAssembly

AsmNext ==
    \/ AssembleInstructions
    \/ CountEphemeralSigners
    \/ BuildVaultTransaction

(***************************************************************************)
(* executeSwap (src/src/utils/swap.ts): the standard path                  *)
(***************************************************************************)
\* executeSwap / executeSwapJito calls in one behaviour
MaxSwaps == 1

\* SwapResult
SwapResult(success, signature, error, errorCode) ==
    [success |-> success, signature |-> signature, error |-> error, errorCode |-> errorCode]
NoSwapResult == SwapResult(FALSE, "", "", "")

\* messages of the errors sendTransaction and confirmTransaction throw
ErrorMessages ==
    {"Transaction simulation failed: Insufficient funds for fee",
     "Transfer: insufficient lamports",
     "custom program error: 0x1788",
     "Slippage tolerance exceeded",
     "Blockhash not found",
     "Signature has expired: block height exceeded",
     "failed to fetch"}

\* error.message.toLowerCase().includes(word), for the words the catch looks for
Includes(message, word) ==
    CASE word = "insufficient funds" ->
             message = "Transaction simulation failed: Insufficient funds for fee"
      [] word = "insufficient lamports" -> message = "Transfer: insufficient lamports"
      [] word = "slippage" -> message = "Slippage tolerance exceeded"
      [] word = "0x1788" -> message = "custom program error: 0x1788"
      [] word = "blockhash" -> message = "Blockhash not found"
      [] word = "expired" -> message = "Signature has expired: block height exceeded"
      [] OTHER -> FALSE

\* catch (error) of executeSwap for an Error: the result by the message
CatchExecuteSwap(message) ==
    IF Includes(message, "insufficient funds") \/ Includes(message, "insufficient lamports")
    THEN SwapResult(FALSE, "", "Insufficient SOL for transaction fees", "INSUFFICIENT_SOL")
    ELSE IF Includes(message, "slippage") \/ Includes(message, "0x1788")
    THEN SwapResult(FALSE, "", "Price changed too much. Try increasing slippage.",
                    "SLIPPAGE_EXCEEDED")
    ELSE IF Includes(message, "blockhash") \/ Includes(message, "expired")
    THEN SwapResult(FALSE, "", "Transaction expired. Please try again.", "TX_EXPIRED")
    ELSE SwapResult(FALSE, "", message, "EXECUTION_ERROR")

\* the locals of the race before sendTransaction
NoRace ==
    /\ confirmation = "none"
    /\ valueErr = [kind |-> "none", index |-> 0, custom |-> 0]
    /\ rejection = ""
    /\ settled = << >>
    /\ raceWinner = "none"

\* the locals of executeSwapJito outside its body
NoStatus == [confirmationStatus |-> "none",
             err |-> [kind |-> "none", index |-> 0, custom |-> 0]]
NoJito ==
    /\ relayOffers = << >>
    /\ relayAccepted = 0
    /\ direct = "none"
    /\ elapsed = 0
    /\ polls = 0
    /\ lastStatus = NoStatus
    /\ pollEnd = "none"
    /\ fellBack = FALSE

ExInit ==
    /\ exPc = "idle"
    /\ exEntry = "none"
    /\ txValid = TRUE
    /\ exSignature = ""
    /\ NoRace
    /\ NoJito
    /\ exResult = NoSwapResult
    /\ exCalls = 0

\* executeSwap(swapTx, signer) called by the caller
executeSwap(valid) ==
    /\ exPc = "idle"
    /\ exCalls < MaxSwaps
    /\ exCalls' = exCalls + 1
    /\ exEntry' = "standard"
    /\ txValid' = valid
    /\ exPc' = "standard"
    /\ UNCHANGED << exSignature, raceVars, jitoVars, exResult >>
    /\ UNCHANGED outsideExecution

\* the return of executeSwap from its catch block
ReturnFromCatch(message) ==
    /\ exResult' = CatchExecuteSwap(message)
    /\ exPc' = "done"

\* VersionedTransaction.deserialize throws
DeserializeThrows ==
    /\ exPc = "standard"
    /\ ~txValid
    /\ ReturnFromCatch("Reached end of buffer unexpectedly")
    /\ UNCHANGED << exEntry, txValid, exSignature, raceVars, jitoVars, exCalls >>
    /\ UNCHANGED outsideExecution

\* const signature = await conn.sendTransaction(transaction, ...), and the
\* two promises of the race are created
SendTransaction ==
    /\ exPc = "standard"
    /\ txValid
    /\ exSignature' = "SIG"
    /\ confirmation' = "pending"
    /\ exPc' = "race"
    /\ UNCHANGED << exEntry, txValid, valueErr, rejection, settled, raceWinner, jitoVars,
                    exResult, exCalls >>
    /\ UNCHANGED outsideExecution

\* conn.sendTransaction throws
SendTransactionThrows(message) ==
    /\ exPc = "standard"
    /\ txValid
    /\ ReturnFromCatch(message)
    /\ UNCHANGED << exEntry, txValid, exSignature, raceVars, jitoVars, exCalls >>
    /\ UNCHANGED outsideExecution

\* Promise.race taking the promise that settles last
SettleRace_LastWins(winner, promise) == promise

\* Promise.race: the first promise to settle decides
SettleRace(winner, promise) == IF winner = "none" THEN promise ELSE winner

\* conn.confirmTransaction(...) resolves, with or without value.err
ConfirmationSettles(outcome, err) ==
    /\ exPc = "race"
    /\ confirmation = "pending"
    /\ confirmation' = outcome
    /\ valueErr' = err
    /\ settled' = Append(settled, "confirmation")
    /\ raceWinner' = SettleRace(raceWinner, "confirmation")
    /\ UNCHANGED << exPc, exEntry, txValid, exSignature, rejection, jitoVars, exResult, exCalls >>
    /\ UNCHANGED outsideExecution

\* conn.confirmTransaction(...) rejects
ConfirmationRejects(message) ==
    /\ exPc = "race"
    /\ confirmation = "pending"
    /\ confirmation' = "rejected"
    /\ rejection' = message
    /\ settled' = Append(settled, "confirmation")
    /\ raceWinner' = SettleRace(raceWinner, "confirmation")
    /\ UNCHANGED << exPc, exEntry, txValid, exSignature, valueErr, jitoVars, exResult, exCalls >>
    /\ UNCHANGED outsideExecution

\* setTimeout(() => reject(new Error("Confirmation timeout")), SWAP_TIMEOUT_MS)
TimeoutRejects ==
    /\ exPc = "race"
    /\ "timeout" \notin { settled[k] : k \in 1 .. Len(settled) }
    /\ settled' = Append(settled, "timeout")
    /\ raceWinner' = SettleRace(raceWinner, "timeout")
    /\ UNCHANGED << exPc, exEntry, txValid, exSignature, confirmation, valueErr, rejection, jitoVars,
                    exResult, exCalls >>
    /\ UNCHANGED outsideExecution

\* the await of the race continues: if (confirmation.value.err) ...; return
\* { success: true, signature }; a rejection goes to the catch block
AfterRace ==
    /\ exPc = "race"
    /\ raceWinner # "none"
    /\ IF raceWinner = "timeout"
       THEN ReturnFromCatch("Confirmation timeout")
       ELSE IF confirmation = "rejected"
       THEN ReturnFromCatch(rejection)
       ELSE /\ exPc' = "done"
            /\ exResult' = IF confirmation = "err"
                           THEN SwapResult(FALSE, exSignature, "Transaction failed on-chain",
                                           "TX_FAILED")
                           ELSE SwapResult(TRUE, exSignature, "", "")
    /\ UNCHANGED << exEntry, txValid, exSignature, raceVars, jitoVars, exCalls >>
    /\ UNCHANGED outsideExecution

(***************************************************************************)
(* executeSwapJito                                                         *)
(***************************************************************************)
JITO_TX_ENDPOINTS == << "mainnet", "amsterdam", "frankfurt", "ny", "tokyo" >>
\* const timeout = 8_000
POLL_TIMEOUT_MS == 8000
\* await new Promise(resolve => setTimeout(resolve, 200))
POLL_INTERVAL_MS == 200
\* the slippage error of the swap program, 0x1788
SLIPPAGE_CODE == 6024

\* how long a getSignatureStatus call takes, in ms
RpcLatencies == {0, 1000}

\* what the fetch of a relay endpoint gives: response.ok, data.result, or a throw
RelayResponse(throws, ok, result) == [throws |-> throws, ok |-> ok, result |-> result]
RelayResponses ==
    {RelayResponse(FALSE, TRUE, TRUE), RelayResponse(FALSE, TRUE, FALSE),
     RelayResponse(FALSE, FALSE, FALSE), RelayResponse(TRUE, FALSE, FALSE)}

\* if (response.ok) { const data = await response.json(); if (data.result) ... }
RelayAccepts(response) == ~response.throws /\ response.ok /\ response.result

\* status.value.err
NoErr == [kind |-> "none", index |-> 0, custom |-> 0]
InstructionError(index, custom) == [kind |-> "InstructionError", index |-> index, custom |-> custom]
CustomCodes == {SLIPPAGE_CODE, 6001, 1788, 16024}
TransactionErrors == { InstructionError(2, c) : c \in CustomCodes }

\* what getSignatureStatus gives: a throw, value null, or a status
Status(confirmationStatus, err) == [confirmationStatus |-> confirmationStatus, err |-> err]
SignatureStatuses ==
    {Status("throws", NoErr), Status("none", NoErr)}
        \cup { Status(c, e) : c \in {"processed", "confirmed", "finalized"},
                              e \in {NoErr} \cup TransactionErrors }

DigitChars == << "0", "1", "2", "3", "4", "5", "6", "7", "8", "9" >>

\* the decimal digits of a number, as JSON.stringify writes it
RECURSIVE Digits(_)
Digits(n) == IF n < 10 THEN << DigitChars[n + 1] >>
             ELSE Append(Digits(n \div 10), DigitChars[(n % 10) + 1])

\* JSON.stringify(status.value.err): {"InstructionError":[index,{"Custom":custom}]}
JSONStringify(err) ==
    << "{", "\"InstructionError\"", ":", "[" >> \o Digits(err.index)
        \o << ",", "{", "\"Custom\"", ":" >> \o Digits(err.custom) \o << "}", "]", "}" >>

\* errStr.includes(pattern)
StrIncludes(str, pattern) ==
    \E i \in 1 .. (Len(str) - Len(pattern) + 1) :
        SubSeq(str, i, i + Len(pattern) - 1) = pattern

\* errStr.includes("6024") || errStr.includes("1788")
LooksLikeSlippage(errStr) ==
    \/ StrIncludes(errStr, << "6", "0", "2", "4" >>)
    \/ StrIncludes(errStr, << "1", "7", "8", "8" >>)

\* the status test of the polling loop with "processed" let through
IsConfirmed_OrProcessed(status) ==
    status.confirmationStatus \in {"processed", "confirmed", "finalized"}

\* status?.value?.confirmationStatus === "confirmed" || ... === "finalized"
IsConfirmed(status) == status.confirmationStatus \in {"confirmed", "finalized"}

\* the result for a confirmed or finalized status
DecodeStatus(status, signature) ==
    IF status.err # NoErr
    THEN IF LooksLikeSlippage(JSONStringify(status.err))
         THEN SwapResult(FALSE, signature, "Price moved too much - slippage exceeded",
                         "SLIPPAGE_EXCEEDED")
         ELSE SwapResult(FALSE, signature, "Transaction failed on-chain", "TX_FAILED")
    ELSE SwapResult(TRUE, signature, "", "")

\* executeSwapJito(swapTx, signer) called by the caller
executeSwapJito(valid) ==
    /\ exPc = "idle"
    /\ exCalls < MaxSwaps
    /\ exCalls' = exCalls + 1
    /\ exEntry' = "jito"
    /\ txValid' = valid
    /\ exPc' = "jito"
    /\ UNCHANGED << exSignature, raceVars, jitoVars, exResult >>
    /\ UNCHANGED outsideExecution

\* catch (error) of executeSwapJito: return executeSwap(swapTx, signer, conn)
FallBackToExecuteSwap ==
    /\ fellBack' = TRUE
    /\ exPc' = "standard"

\* VersionedTransaction.deserialize throws in executeSwapJito
JitoDeserializeThrows ==
    /\ exPc = "jito"
    /\ ~txValid
    /\ FallBackToExecuteSwap
    /\ UNCHANGED << exEntry, txValid, exSignature, raceVars, relayOffers, relayAccepted, direct,
                    elapsed, polls, lastStatus, pollEnd, exResult, exCalls >>
    /\ UNCHANGED outsideExecution

\* transaction.sign([signer]); const signature = bs58.encode(transaction.signatures[0])
JitoSign ==
    /\ exPc = "jito"
    /\ txValid
    /\ exSignature' = "SIG"
    /\ exPc' = "relay"
    /\ UNCHANGED << exEntry, txValid, raceVars, jitoVars, exResult, exCalls >>
    /\ UNCHANGED outsideExecution

\* one turn of `for (const endpoint of JITO_TX_ENDPOINTS)`: the fetch, and
\* `sent = true; break` when the endpoint accepts
OfferToRelay(response) ==
    /\ exPc = "relay"
    /\ LET endpoint == Len(relayOffers) + 1 IN
         /\ relayOffers' = Append(relayOffers, JITO_TX_ENDPOINTS[endpoint])
         /\ relayAccepted' = IF RelayAccepts(response) THEN endpoint ELSE 0
         /\ exPc' = IF RelayAccepts(response) \/ endpoint = Len(JITO_TX_ENDPOINTS)
                    THEN "afterRelays" ELSE "relay"
    /\ UNCHANGED << exEntry, txValid, exSignature, raceVars, direct, elapsed, polls, lastStatus,
                    pollEnd, fellBack, exResult, exCalls >>
    /\ UNCHANGED outsideExecution

\* the direct submission made whatever the relays answered
NeedsDirect_Always(wasSent) == TRUE

\* if (!sent)
NeedsDirect(wasSent) == ~wasSent

\* await conn.sendRawTransaction(transaction.serialize(), { skipPreflight: true, ... })
SendDirect ==
    /\ exPc = "afterRelays"
    /\ NeedsDirect(relayAccepted # 0)
    /\ direct' = "sent"
    /\ exPc' = "poll"
    /\ UNCHANGED << exEntry, txValid, exSignature, raceVars, relayOffers, relayAccepted, elapsed,
                    polls, lastStatus, pollEnd, fellBack, exResult, exCalls >>
    /\ UNCHANGED outsideExecution

\* conn.sendRawTransaction throws
SendDirectThrows ==
    /\ exPc = "afterRelays"
    /\ NeedsDirect(relayAccepted # 0)
    /\ direct' = "threw"
    /\ FallBackToExecuteSwap
    /\ UNCHANGED << exEntry, txValid, exSignature, raceVars, relayOffers, relayAccepted, elapsed,
                    polls, lastStatus, pollEnd, exResult, exCalls >>
    /\ UNCHANGED outsideExecution

\* a relay accepted: on to const startTime = Date.now()
SkipDirect ==
    /\ exPc = "afterRelays"
    /\ ~NeedsDirect(relayAccepted # 0)
    /\ exPc' = "poll"
    /\ UNCHANGED << exEntry, txValid, exSignature, raceVars, jitoVars, exResult, exCalls >>
    /\ UNCHANGED outsideExecution

\* one turn of `while (Date.now() - startTime < timeout)`: the status read,
\* the returns for a confirmed or finalized status, else the 200 ms sleep
PollStatus(status, latency) ==
    /\ exPc = "poll"
    /\ elapsed < POLL_TIMEOUT_MS
    /\ polls' = polls + 1
    /\ lastStatus' = status
    /\ IF status.confirmationStatus # "throws" /\ IsConfirmed(status)
       THEN /\ exResult' = DecodeStatus(status, exSignature)
            /\ pollEnd' = "status"
            /\ exPc' = "done"
            /\ elapsed' = elapsed + latency
       ELSE /\ elapsed' = elapsed + latency + POLL_INTERVAL_MS
            /\ UNCHANGED << exResult, pollEnd, exPc >>
    /\ UNCHANGED << exEntry, txValid, exSignature, raceVars, relayOffers, relayAccepted, direct,
                    fellBack, exCalls >>
    /\ UNCHANGED outsideExecution

\* the loop condition fails: return { success: true, signature }
PollWindowExpires ==
    /\ exPc = "poll"
    /\ elapsed >= POLL_TIMEOUT_MS
    /\ exResult' = SwapResult(TRUE, exSignature, "", "")
    /\ pollEnd' = "expired"
    /\ exPc' = "done"
    /\ UNCHANGED << exEntry, txValid, exSignature, raceVars, relayOffers, relayAccepted, direct,
                    elapsed, polls, lastStatus, fellBack, exCalls >>
    /\ UNCHANGED outsideExecution

\* the call is over
ExReturn ==
    /\ exPc = "done"
    /\ exPc' = "idle"
    /\ exEntry' = "none"
    /\ txValid' = TRUE
    /\ exSignature' = ""
    /\ confirmation' = "none"
    /\ valueErr' = NoErr
    /\ rejection' = ""
    /\ settled' = << >>
    /\ raceWinner' = "none"
    /\ relayOffers' = << >>
    /\ relayAccepted' = 0
    /\ direct' = "none"
    /\ elapsed' = 0
    /\ polls' = 0
    /\ lastStatus' = NoStatus
    /\ pollEnd' = "none"
    /\ fellBack' = FALSE
    /\ exResult' = NoSwapResult
    /\ UNCHANGED exCalls
    /\ UNCHANGED outsideExecution

ExNext ==
    \/ \E valid \in BOOLEAN : executeSwap(valid)
    \/ DeserializeThrows
    \/ SendTransaction
    \/ \E message \in ErrorMessages : SendTransactionThrows(message)
    \/ ConfirmationSettles("ok", NoErr)
    \/ \E e \in TransactionErrors : ConfirmationSettles("err", e)
    \/ \E message \in ErrorMessages : ConfirmationRejects(message)
    \/ TimeoutRejects
    \/ AfterRace
    \/ \E valid \in BOOLEAN : executeSwapJito(valid)
    \/ JitoDeserializeThrows
    \/ JitoSign
    \/ \E response \in RelayResponses : OfferToRelay(response)
    \/ SendDirect
    \/ SendDirectThrows
    \/ SkipDirect
    \/ \E status \in SignatureStatuses, latency \in RpcLatencies : PollStatus(status, latency)
    \/ PollWindowExpires
    \/ ExReturn

(***************************************************************************)
(* executeSwapProposal (src/src/utils/squads.ts)                           *)
(***************************************************************************)
\* lookup-table addresses in one call
MaxTables == 3

\* what happens to one address: new PublicKey(address) throws, the fetch
\* throws, the fetch resolves with value null, or with the table
TableFetches == {"invalid address", "fetch throws", "null", "table"}
TableLists == UNION { [1 .. n -> TableFetches] : n \in 0 .. MaxTables }

Pending == [state |-> "pending", value |-> << "null", 0 >>]
Resolved(value) == [state |-> "resolved", value |-> value]
Rejected(e) == [state |-> "rejected", value |-> e]

\* the table account of the k-th address
TableAccount(k) == << "table", k >>
NoTable == << "null", 0 >>

\* the async callback of the map without its try / catch
AltPromise_Uncaught(k, fetch) ==
    CASE fetch = "table" -> Resolved(TableAccount(k))
      [] fetch = "null" -> Resolved(NoTable)
      [] OTHER -> Rejected(NoTable)

\* the async callback of the map: try { ...; return result.value } catch (e) { return null }
AltPromise(k, fetch) ==
    CASE fetch = "table" -> Resolved(TableAccount(k))
      [] OTHER -> Resolved(NoTable)

\* results.filter(alt => alt !== null)
RECURSIVE FilterNotNull(_)
FilterNotNull(results) ==
    IF results = << >> THEN << >>
    ELSE IF Head(results).value # NoTable
         THEN << Head(results).value >> \o FilterNotNull(Tail(results))
         ELSE FilterNotNull(Tail(results))

\* what vaultTransactionExecute does: returns a result with a signature,
\* returns without one, or throws
ExecuteOutcomes == {"signature", "no signature", "throws"}

EspReturned(signature) == [kind |-> "ok", signature |-> signature, error |-> ""]
EspThrown(e) == [kind |-> "error", signature |-> "null", error |-> e]
NoEspResult == [kind |-> "none", signature |-> "null", error |-> ""]

EspInit ==
    /\ espPc = "idle"
    /\ addressLookupTableAddresses = << >>
    /\ altResults = << >>
    /\ addressLookupTableAccounts = << >>
    /\ execution = "none"
    /\ espResult = NoEspResult

\* executeSwapProposal(connection, member, multisigPda, transactionIndex,
\* addressLookupTableAddresses): `if (addressLookupTableAddresses.length > 0)`
\* starts the fetches
executeSwapProposal(addresses) ==
    /\ espPc = "idle"
    /\ addressLookupTableAddresses' = addresses
    /\ altResults' = [k \in 1 .. Len(addresses) |-> Pending]
    /\ espPc' = IF Len(addresses) > 0 THEN "fetch" ELSE "execute"
    /\ UNCHANGED << addressLookupTableAccounts, execution, espResult >>
    /\ UNCHANGED outsideSwapProposal

\* one of the altPromises settles
FetchTable(k) ==
    /\ espPc = "fetch"
    /\ k \in 1 .. Len(altResults)
    /\ altResults[k] = Pending
    /\ altResults' = [altResults EXCEPT ![k] = AltPromise(k, addressLookupTableAddresses[k])]
    /\ UNCHANGED << espPc, addressLookupTableAddresses, addressLookupTableAccounts, execution,
                    espResult >>
    /\ UNCHANGED outsideSwapProposal

\* const results = await Promise.all(altPromises) and the filter; a rejected
\* promise would make the await throw out of executeSwapProposal
AwaitAll ==
    /\ espPc = "fetch"
    /\ IF \E k \in 1 .. Len(altResults) : altResults[k].state = "rejected"
       THEN /\ espPc' = "done"
            /\ espResult' = EspThrown("lookup table fetch failed")
            /\ UNCHANGED addressLookupTableAccounts
       ELSE /\ \A k \in 1 .. Len(altResults) : altResults[k].state = "resolved"
            /\ addressLookupTableAccounts' = FilterNotNull(altResults)
            /\ espPc' = "execute"
            /\ UNCHANGED espResult
    /\ UNCHANGED << addressLookupTableAddresses, altResults, execution >>
    /\ UNCHANGED outsideSwapProposal

\* const result = await vaultTransactionExecute({...});
\* return result?.signature || null; catch (e) { ...; throw e }
VaultTransactionExecute(outcome) ==
    /\ espPc = "execute"
    /\ execution' = IF outcome = "throws" THEN "threw" ELSE "ok"
    /\ espResult' = CASE outcome = "signature" -> EspReturned("SIG")
                      [] outcome = "no signature" -> EspReturned("null")
                      [] OTHER -> EspThrown("vaultTransactionExecute failed")
    /\ espPc' = "done"
    /\ UNCHANGED << addressLookupTableAddresses, altResults, addressLookupTableAccounts >>
    /\ UNCHANGED outsideSwapProposal

EspNext ==
    \/ \E addresses \in TableLists : executeSwapProposal(addresses)
    \/ \E k \in 1 .. MaxTables : FetchTable(k)
    \/ AwaitAll
    \/ \E outcome \in ExecuteOutcomes : VaultTransactionExecute(outcome)

(***************************************************************************)
(* requestServerApproval (src/src/utils/api.ts)                            *)
(***************************************************************************)
\* data.requiredRange || 0.5, in tenths of the unit of the range
DEFAULT_REQUIRED_RANGE == 5

\* a field the body does not have
Undefined == << >>
\* distances and ranges in tenths; a range the service sends is positive
Distances == {Undefined, << 0 >>, << 30 >>}
RequiredRanges == {Undefined, << 10 >>}
ErrorTexts == {Undefined, << "Too far from home" >>}

\* the bodies the service answers with
ResponseBodies ==
    [geoError : BOOLEAN, distance : Distances, requiredRange : RequiredRanges,
     error : ErrorTexts]

\* res: res.ok, whether res.json() parses, and the parsed body
Responses == [ok : BOOLEAN, json : BOOLEAN, body : ResponseBodies]
NoResponse ==
    [ok |-> FALSE, json |-> FALSE,
     body |-> [geoError |-> FALSE, distance |-> Undefined, requiredRange |-> Undefined,
               error |-> Undefined]]

\* value || fallback for a field that is absent or a non-empty value
OrElse(value, fallback) == IF value = Undefined THEN fallback ELSE value

ApiReturned(data) ==
    [kind |-> "returned", data |-> data, message |-> Undefined, distance |-> Undefined,
     requiredRange |-> Undefined]
\* new GeoFenceError(message, distance, requiredRange)
GeoFenceError(message, distance, requiredRange) ==
    [kind |-> "GeoFenceError", data |-> NoResponse.body, message |-> message,
     distance |-> distance, requiredRange |-> requiredRange]
\* new Error(message)
PlainError(message) ==
    [kind |-> "Error", data |-> NoResponse.body, message |-> message, distance |-> Undefined,
     requiredRange |-> Undefined]
NoApiResult ==
    [kind |-> "none", data |-> NoResponse.body, message |-> Undefined, distance |-> Undefined,
     requiredRange |-> Undefined]

\* the geofence test with the distance tested for truthiness
IsGeoFenceRejection_Truthy(data) ==
    data.geoError /\ data.distance # Undefined /\ data.distance # << 0 >>

\* if (data.geoError && data.distance !== undefined)
IsGeoFenceRejection(data) == data.geoError /\ data.distance # Undefined

ApiInit ==
    /\ apiPc = "idle"
    /\ apiResponse = NoResponse
    /\ apiResult = NoApiResult

\* const res = await fetch(`${API_URL}/approve-transfer`, ...)
requestServerApproval(res) ==
    /\ apiPc = "idle"
    /\ apiResponse' = res
    /\ apiPc' = "fetched"
    /\ UNCHANGED apiResult
    /\ UNCHANGED outsideApproval

\* fetch rejects: the service cannot be reached
FetchThrows ==
    /\ apiPc = "idle"
    /\ apiResult' = PlainError(<< "Failed to fetch" >>)
    /\ apiPc' = "done"
    /\ UNCHANGED apiResponse
    /\ UNCHANGED outsideApproval

\* const data = await res.json(); if (!res.ok) { ... throw ... } return data
ReadBody ==
    /\ apiPc = "fetched"
    /\ apiResult' =
         IF ~apiResponse.json
         THEN PlainError(<< "Unexpected token in JSON" >>)
         ELSE IF ~apiResponse.ok
         THEN IF IsGeoFenceRejection(apiResponse.body)
              THEN GeoFenceError(OrElse(apiResponse.body.error,
                                        << "Geo-fence verification failed" >>),
                                 apiResponse.body.distance,
                                 OrElse(apiResponse.body.requiredRange,
                                        << DEFAULT_REQUIRED_RANGE >>))
              ELSE PlainError(OrElse(apiResponse.body.error, << "Server approval failed" >>))
         ELSE ApiReturned(apiResponse.body)
    /\ apiPc' = "done"
    /\ UNCHANGED apiResponse
    /\ UNCHANGED outsideApproval

ApiNext ==
    \/ \E res \in Responses : requestServerApproval(res)
    \/ FetchThrows
    \/ ReadBody

(***************************************************************************)
(* createSquad: the create-key seed of each attempt                        *)
(* (src/src/utils/squads.ts, lines 97-103)                                 *)
(***************************************************************************)
KEY_LENGTH == 32
FLIP_MASK == 255

\* public keys of owners, as their 32 bytes
OwnerKeys ==
    { [k \in 1 .. KEY_LENGTH |-> 0],
      [k \in 1 .. KEY_LENGTH |-> 255],
      [k \in 1 .. KEY_LENGTH |-> (7 * k) % 256],
      [k \in 1 .. KEY_LENGTH |-> IF k % 2 = 0 THEN 128 ELSE 127],
      [k \in 1 .. KEY_LENGTH |-> IF k <= 10 THEN 255 - k ELSE k],
      [k \in 1 .. KEY_LENGTH |-> (k * k) % 256] }

\* a ^ b on non-negative integers
RECURSIVE BitXor(_, _)
BitXor(a, b) ==
    IF a = 0 /\ b = 0 THEN 0
    ELSE (((a % 2) + (b % 2)) % 2) + 2 * BitXor(a \div 2, b \div 2)

\* PublicKey.toBytes(): a new Uint8Array holding the key bytes
toBytes(publicKey) == publicKey

\* seed[0] ^= 0xFF whatever the attempt
RollSeed_FixedByte(bytes, i) ==
    [bytes EXCEPT ![1] = BitXor(@, FLIP_MASK) % 256]

\* seed[i % 32] ^= 0xFF on a Uint8Array (the sequence is indexed from 1)
RollSeed(bytes, i) ==
    [bytes EXCEPT ![(i % KEY_LENGTH) + 1] = BitXor(@, FLIP_MASK) % 256]

NoSeed == << >>

SeedInit ==
    /\ owner \in OwnerKeys
    /\ seedPc = "idle"
    /\ seedI = 0
    /\ seed = NoSeed
    /\ walked = << >>
    /\ previousWalk = << >>
    /\ seedCalls = 0

\* createSquad(creator, member2) reaches for (let i = 0; ...)
EnterSeedLoop ==
    /\ seedPc = "idle"
    /\ seedCalls < MaxCalls
    /\ seedCalls' = seedCalls + 1
    /\ seedPc' = "loop"
    /\ seedI' = 0
    /\ seed' = NoSeed
    /\ walked' = << >>
    /\ UNCHANGED << owner, previousWalk >>
    /\ UNCHANGED outsideSeed

\* one iteration: const seed = creator.publicKey.toBytes(); seed[i % 32] ^= 0xFF;
\* the iteration ends with continue and i++
DeriveSeed ==
    /\ seedPc = "loop"
    /\ seedI < MAX_ATTEMPTS
    /\ seed' = RollSeed(toBytes(owner), seedI)
    /\ walked' = Append(walked, seed')
    /\ seedI' = seedI + 1
    /\ UNCHANGED << owner, seedPc, previousWalk, seedCalls >>
    /\ UNCHANGED outsideSeed

\* the call ends: a return inside an iteration, or the throw after the loop
LeaveSeedLoop ==
    /\ seedPc = "loop"
    /\ walked # << >>
    /\ seedPc' = "idle"
    /\ previousWalk' = walked
    /\ UNCHANGED << owner, seedI, seed, walked, seedCalls >>
    /\ UNCHANGED outsideSeed

SeedNext ==
    \/ EnterSeedLoop
    \/ DeriveSeed
    \/ LeaveSeedLoop

(***************************************************************************)
(* executeSwapWithFallback, executeUltraSwapFull, executeUltraSwap         *)
(* (src/src/utils/swap.ts, lines 297-671)                                  *)
(***************************************************************************)
\* codes of the SwapError getUltraSwapOrder throws
OrderErrorCodes ==
    {"INVALID_AMOUNT", "ORDER_FAILED", "INSUFFICIENT_FUNDS", "ORDER_ERROR", "NO_TRANSACTION",
     "TIMEOUT", "NETWORK_ERROR"}
\* data.status of the execute response; "" when the field is absent
ExecuteStatuses == {"Success", "Failed", "Pending", ""}
\* codes of the SwapError getSwapQuote and buildSwapTransaction throw
LegacyErrorCodes == {"NO_ROUTE", "TIMEOUT", "NETWORK_ERROR"}

\* data.status || 'Pending'
StatusOrPending(status) == IF status = "" THEN "Pending" ELSE status

\* catch of executeUltraSwapFull for a SwapError with the given code
UltraFailure(code) ==
    IF code = "INSUFFICIENT_FUNDS"
    THEN SwapResult(FALSE, "", "Insufficient funds for this swap", "INSUFFICIENT_FUNDS")
    ELSE SwapResult(FALSE, "", code, code)

\* the result of executeUltraSwapFull for the result of executeUltraSwap
UltraResult(status) ==
    IF status = "Failed"
    THEN SwapResult(FALSE, "ULTRA_SIG", "Swap execution failed", "ULTRA_FAILED")
    ELSE SwapResult(TRUE, "ULTRA_SIG", "", "")

\* the early return of executeSwapWithFallback left out
ReturnsUltraResult_Never(ultraResult) == FALSE

\* if (ultraResult.success) return ultraResult
ReturnsUltraResult(ultraResult) == ultraResult.success

\* catch (legacyError) of executeSwapWithFallback
LegacyFailure(message) == SwapResult(FALSE, "", message, "ALL_METHODS_FAILED")

FbInit ==
    /\ fbPc = "idle"
    /\ ultraTx = "none"
    /\ legacyTx = "none"
    /\ ultraOutcome = NoSwapResult
    /\ requests = << >>
    /\ fbResult = NoSwapResult
    /\ fbCalls = 0

\* executeSwapWithFallback(params, signer): the call of executeUltraSwapFull
executeSwapWithFallback ==
    /\ fbPc = "idle"
    /\ fbCalls < MaxSwaps
    /\ fbCalls' = fbCalls + 1
    /\ fbPc' = "order"
    /\ ultraTx' = "none"
    /\ legacyTx' = "none"
    /\ ultraOutcome' = NoSwapResult
    /\ requests' = << >>
    /\ fbResult' = NoSwapResult
    /\ UNCHANGED outsideFallback

\* what follows the end of executeUltraSwapFull in executeSwapWithFallback
AfterUltra(result) ==
    /\ ultraOutcome' = result
    /\ IF ReturnsUltraResult(result)
       THEN /\ fbPc' = "done"
            /\ fbResult' = result
       ELSE /\ fbPc' = "quote"
            /\ UNCHANGED fbResult

\* const order = await getUltraSwapOrder(params) returns an order
getUltraSwapOrder(deserializes) ==
    /\ fbPc = "order"
    /\ requests' = Append(requests, "ultraOrder")
    /\ fbPc' = IF deserializes THEN "execute" ELSE "malformed"
    /\ UNCHANGED << ultraTx, legacyTx, ultraOutcome, fbResult, fbCalls >>
    /\ UNCHANGED outsideFallback

\* getUltraSwapOrder throws a SwapError
GetUltraSwapOrderThrows(code) ==
    /\ fbPc = "order"
    /\ requests' = Append(requests, "ultraOrder")
    /\ AfterUltra(UltraFailure(code))
    /\ UNCHANGED << ultraTx, legacyTx, fbCalls >>
    /\ UNCHANGED outsideFallback

\* VersionedTransaction.deserialize(order.transaction) throws
UltraDeserializeThrows ==
    /\ fbPc = "malformed"
    /\ AfterUltra(SwapResult(FALSE, "", "Reached end of buffer unexpectedly", "EXECUTION_ERROR"))
    /\ UNCHANGED << ultraTx, legacyTx, requests, fbCalls >>
    /\ UNCHANGED outsideFallback

\* executeUltraSwap: the fetch fails before the request has left
UltraExecuteNotSent ==
    /\ fbPc = "execute"
    /\ requests' = Append(requests, "ultraExecute")
    /\ AfterUltra(UltraFailure("NETWORK_ERROR"))
    /\ UNCHANGED << ultraTx, legacyTx, fbCalls >>
    /\ UNCHANGED outsideFallback

\* executeUltraSwap: the POST with the signed transaction reaches the service
UltraExecuteSent ==
    /\ fbPc = "execute"
    /\ requests' = Append(requests, "ultraExecute")
    /\ ultraTx' = "handed"
    /\ fbPc' = "awaitExecute"
    /\ UNCHANGED << legacyTx, ultraOutcome, fbResult, fbCalls >>
    /\ UNCHANGED outsideFallback

\* the service answers with response.ok: the transaction was executed
\* (Success), failed for good (Failed) or is still on its way (Pending)
UltraExecuteResponds(status) ==
    /\ fbPc = "awaitExecute"
    /\ ultraTx' = CASE StatusOrPending(status) = "Success" -> "executed"
                    [] StatusOrPending(status) = "Failed" -> "failed"
                    [] OTHER -> ultraTx
    /\ AfterUltra(UltraResult(StatusOrPending(status)))
    /\ UNCHANGED << legacyTx, requests, fbCalls >>
    /\ UNCHANGED outsideFallback

\* the service answers with !response.ok: it did not take the transaction
UltraExecuteRefused ==
    /\ fbPc = "awaitExecute"
    /\ ultraTx' = "refused"
    /\ AfterUltra(UltraFailure("EXECUTE_FAILED"))
    /\ UNCHANGED << legacyTx, requests, fbCalls >>
    /\ UNCHANGED outsideFallback

\* the abort after SWAP_TIMEOUT_MS, or the connection breaking, while the
\* answer is awaited; the service keeps the transaction
UltraExecuteGivenUp(code) ==
    /\ fbPc = "awaitExecute"
    /\ AfterUltra(UltraFailure(code))
    /\ UNCHANGED << ultraTx, legacyTx, requests, fbCalls >>
    /\ UNCHANGED outsideFallback

\* the chain: a handed-over Ultra transaction nobody waits for any more is
\* executed, fails or expires
UltraTransactionLands(outcome) ==
    /\ ultraTx = "handed"
    /\ fbPc # "awaitExecute"
    /\ ultraTx' = outcome
    /\ UNCHANGED << fbPc, legacyTx, ultraOutcome, requests, fbResult, fbCalls >>
    /\ UNCHANGED outsideFallback

\* const quote = await getSwapQuote(...) returns a quote
getSwapQuote ==
    /\ fbPc = "quote"
    /\ requests' = Append(requests, "legacyQuote")
    /\ fbPc' = "build"
    /\ UNCHANGED << ultraTx, legacyTx, ultraOutcome, fbResult, fbCalls >>
    /\ UNCHANGED outsideFallback

\* getSwapQuote throws
GetSwapQuoteThrows(code) ==
    /\ fbPc = "quote"
    /\ requests' = Append(requests, "legacyQuote")
    /\ fbResult' = LegacyFailure(code)
    /\ fbPc' = "done"
    /\ UNCHANGED << ultraTx, legacyTx, ultraOutcome, fbCalls >>
    /\ UNCHANGED outsideFallback

\* const swapTx = await buildSwapTransaction(...) returns
buildSwapTransaction ==
    /\ fbPc = "build"
    /\ requests' = Append(requests, "legacySwap")
    /\ fbPc' = "legacy"
    /\ UNCHANGED << ultraTx, legacyTx, ultraOutcome, fbResult, fbCalls >>
    /\ UNCHANGED outsideFallback

\* buildSwapTransaction throws
BuildSwapTransactionThrows(code) ==
    /\ fbPc = "build"
    /\ requests' = Append(requests, "legacySwap")
    /\ fbResult' = LegacyFailure(code)
    /\ fbPc' = "done"
    /\ UNCHANGED << ultraTx, legacyTx, ultraOutcome, fbCalls >>
    /\ UNCHANGED outsideFallback

\* const result = await executeSwap(swapTx, signer, conn); return result --
\* sendTransaction throws: nothing was submitted
LegacyNotSent(message) ==
    /\ fbPc = "legacy"
    /\ requests' = Append(requests, "legacySend")
    /\ fbResult' = CatchExecuteSwap(message)
    /\ fbPc' = "done"
    /\ UNCHANGED << ultraTx, legacyTx, ultraOutcome, fbCalls >>
    /\ UNCHANGED outsideFallback

\* executeSwap submitted the transaction and the confirmation resolved
\* before the timeout, with or without value.err
LegacyConfirmed(failed) ==
    /\ fbPc = "legacy"
    /\ requests' = Append(requests, "legacySend")
    /\ legacyTx' = IF failed THEN "failed" ELSE "executed"
    /\ fbResult' = IF failed
                   THEN SwapResult(FALSE, "SIG", "Transaction failed on-chain", "TX_FAILED")
                   ELSE SwapResult(TRUE, "SIG", "", "")
    /\ fbPc' = "done"
    /\ UNCHANGED << ultraTx, ultraOutcome, fbCalls >>
    /\ UNCHANGED outsideFallback

\* executeSwap submitted the transaction and the confirmation rejected or
\* the timeout won the race
LegacyUnconfirmed(message) ==
    /\ fbPc = "legacy"
    /\ requests' = Append(requests, "legacySend")
    /\ legacyTx' = "submitted"
    /\ fbResult' = CatchExecuteSwap(message)
    /\ fbPc' = "done"
    /\ UNCHANGED << ultraTx, ultraOutcome, fbCalls >>
    /\ UNCHANGED outsideFallback

\* the chain: a submitted legacy transaction whose confirmation was not
\* seen is executed, fails or expires
LegacyTransactionLands(outcome) ==
    /\ legacyTx = "submitted"
    /\ legacyTx' = outcome
    /\ UNCHANGED << fbPc, ultraTx, ultraOutcome, requests, fbResult, fbCalls >>
    /\ UNCHANGED outsideFallback

\* the caller has the result
FbReturn ==
    /\ fbPc = "done"
    /\ fbPc' = "idle"
    /\ UNCHANGED << ultraTx, legacyTx, ultraOutcome, requests, fbResult, fbCalls >>
    /\ UNCHANGED outsideFallback

FbNext ==
    \/ executeSwapWithFallback
    \/ \E deserializes \in BOOLEAN : getUltraSwapOrder(deserializes)
    \/ \E code \in OrderErrorCodes : GetUltraSwapOrderThrows(code)
    \/ UltraDeserializeThrows
    \/ UltraExecuteNotSent
    \/ UltraExecuteSent
    \/ \E status \in ExecuteStatuses : UltraExecuteResponds(status)
    \/ UltraExecuteRefused
    \/ \E code \in {"TIMEOUT", "NETWORK_ERROR"} : UltraExecuteGivenUp(code)
    \/ \E outcome \in {"executed", "failed", "expired"} : UltraTransactionLands(outcome)
    \/ getSwapQuote
    \/ \E code \in LegacyErrorCodes : GetSwapQuoteThrows(code)
    \/ buildSwapTransaction
    \/ \E code \in LegacyErrorCodes : BuildSwapTransactionThrows(code)
    \/ \E message \in ErrorMessages : LegacyNotSent(message)
    \/ \E failed \in BOOLEAN : LegacyConfirmed(failed)
    \/ \E message \in ErrorMessages \cup {"Confirmation timeout"} : LegacyUnconfirmed(message)
    \/ \E outcome \in {"executed", "failed", "expired"} : LegacyTransactionLands(outcome)
    \/ FbReturn

(***************************************************************************)
(* The subscription registry (src/src/utils/subscriptions.ts)              *)
(***************************************************************************)
\* listeners registered on the connection in one behaviour
MaxIds == 3

\* publicKey.toBase58() of the accounts subscribed to
Addresses == {"A1", "A2"}

\* `account:${publicKey.toBase58()}` and `logs:${publicKey.toBase58()}`
KeyOf(kind, address) == << kind, address >>
\* key.startsWith('account:'), key.startsWith('logs:')
StartsWith(key, kind) == key[1] = kind

\* subscriptions.get(key): << >> for undefined, else << id >>
MapGet(map, key) ==
    IF \E e \in map : e.key = key
    THEN << (CHOOSE e \in map : e.key = key).id >>
    ELSE << >>
\* subscriptions.set(key, id)
MapSet(map, key, id) == { e \in map : e.key # key } \cup {[key |-> key, id |-> id]}
\* subscriptions.delete(key)
MapDelete(map, key) == { e \in map : e.key # key }

\* connection.removeAccountChangeListener(id), connection.removeOnLogsListener(id)
RemoveListener(registered, id) == { l \in registered : l.id # id }

\* if (existingId) ...: the id 0 taken for no subscription
IsSubscribed_Truthy(existingId) == existingId # << >> /\ existingId # << 0 >>

\* if (existingId !== undefined)
IsSubscribed(existingId) == existingId # << >>

\* getActiveSubscriptionCount()
getActiveSubscriptionCount == Cardinality(subscriptions)

SubInit ==
    /\ subscriptions = {}
    /\ listeners = {}
    /\ nextClientSubscriptionId = 0
    /\ replaced = {}

\* subscribeToAccountChanges / subscribeToLogs after the key was built:
\* drop the existing subscription of the key, register the new listener,
\* store its id
Subscribe(kind, address) ==
    LET key == KeyOf(kind, address)
        existingId == MapGet(subscriptions, key)
        subscriptionId == nextClientSubscriptionId
        kept == IF IsSubscribed(existingId)
                THEN RemoveListener(listeners, existingId[1]) ELSE listeners
        cleared == IF IsSubscribed(existingId)
                   THEN MapDelete(subscriptions, key) ELSE subscriptions
    IN /\ nextClientSubscriptionId < MaxIds
       /\ nextClientSubscriptionId' = nextClientSubscriptionId + 1
       /\ listeners' = kept \cup {[id |-> subscriptionId, kind |-> kind, address |-> address]}
       /\ subscriptions' = MapSet(cleared, key, subscriptionId)
       /\ replaced' = IF IsSubscribed(existingId)
                      THEN replaced \cup {existingId[1]} ELSE replaced
       /\ UNCHANGED outsideSubscriptions

subscribeToAccountChanges(address) == Subscribe("account", address)

subscribeToLogs(address) == Subscribe("logs", address)

\* unsubscribeFromAccountChanges / unsubscribeFromLogs after the key was built
Unsubscribe(kind, address) ==
    LET key == KeyOf(kind, address)
        subscriptionId == MapGet(subscriptions, key)
    IN /\ IF IsSubscribed(subscriptionId)
          THEN /\ listeners' = RemoveListener(listeners, subscriptionId[1])
               /\ subscriptions' = MapDelete(subscriptions, key)
          ELSE UNCHANGED << listeners, subscriptions >>
       /\ UNCHANGED << nextClientSubscriptionId, replaced >>
       /\ UNCHANGED outsideSubscriptions

unsubscribeFromAccountChanges(address) == Unsubscribe("account", address)

unsubscribeFromLogs(address) == Unsubscribe("logs", address)

\* unsubscribeAll(connection): every entry whose key starts with account:
\* or logs: has its listener removed, then subscriptions.clear()
unsubscribeAll ==
    /\ listeners' =
         { l \in listeners :
             ~\E e \in subscriptions :
                  /\ StartsWith(e.key, "account") \/ StartsWith(e.key, "logs")
                  /\ e.id = l.id }
    /\ subscriptions' = {}
    /\ UNCHANGED << nextClientSubscriptionId, replaced >>
    /\ UNCHANGED outsideSubscriptions

SubNext ==
    \/ \E address \in Addresses : subscribeToAccountChanges(address)
    \/ \E address \in Addresses : subscribeToLogs(address)
    \/ \E address \in Addresses : unsubscribeFromAccountChanges(address)
    \/ \E address \in Addresses : unsubscribeFromLogs(address)
    \/ unsubscribeAll

(***************************************************************************)
(* executeGhostTransfer: shield into the privacy pool, then withdraw to    *)
(* the recipient                                                           *)
(***************************************************************************)
LAMPORTS_PER_SOL == 1000000000
USDC_BASE_UNITS == 1000000
\* MIN_GHOST_AMOUNT_SOL = 0.01, held in hundredths of a SOL
MIN_GHOST_AMOUNT_SOL_HUNDREDTHS == 1
MIN_GHOST_AMOUNT_USDC == 1

\* amounts a caller asks for and balances the privacy client reports, in
\* lamports or USDC base units
GhostAmounts == {0, 999999, 1000000, 9999999, 10000000, 20000000}
PoolBalances == {0, 1000000, 10000000, 20000000}
\* getPrivateBalance / getPrivateBalanceUSDC: the field may be missing
BalanceReads ==
    [present : {TRUE}, units : PoolBalances] \cup {[present |-> FALSE, units |-> 0]}

minAmount(usdc) ==
    IF usdc THEN MIN_GHOST_AMOUNT_USDC * USDC_BASE_UNITS
    ELSE (MIN_GHOST_AMOUNT_SOL_HUNDREDTHS * LAMPORTS_PER_SOL) \div 100

\* balance.lamports || 0, balance.base_units || 0
OrZero(read) == IF read.present THEN read.units ELSE 0

NeedsShield_Always(balance, units) == TRUE

\* if (privateBalance < amount)
NeedsShield(balance, units) == balance < units

NoGhostResult == [success |-> FALSE, errorCode |-> "none", shield |-> FALSE, withdraw |-> FALSE]
GhostFailure(code, shielded) ==
    [success |-> FALSE, errorCode |-> code, shield |-> shielded, withdraw |-> FALSE]
GhostSuccess(shielded) ==
    [success |-> TRUE, errorCode |-> "none", shield |-> shielded, withdraw |-> TRUE]

GhostInit ==
    /\ ghostPc = "idle"
    /\ toAddressOk = TRUE
    /\ ghostAmount = 0
    /\ isUsdc = FALSE
    /\ privateBalance = NotRead
    /\ shieldSignature = FALSE
    /\ clientCalls = << >>
    /\ depositOutcome = "none"
    /\ ghostResult = NoGhostResult

GhostReturns(result) ==
    /\ ghostPc' = "done"
    /\ ghostResult' = result

\* new PublicKey(toAddress) throws: the call returns before the SDK is loaded
ExecuteGhostTransferInvalidRecipient(units, usdc) ==
    /\ ghostPc = "idle"
    /\ toAddressOk' = FALSE
    /\ ghostAmount' = units
    /\ isUsdc' = usdc
    /\ privateBalance' = NotRead
    /\ shieldSignature' = FALSE
    /\ clientCalls' = << >>
    /\ depositOutcome' = "none"
    /\ GhostReturns(GhostFailure("SDK_ERROR", FALSE))
    /\ UNCHANGED outsideGhost

\* a valid recipient: the minimum check, then await loadPrivacyCash()
executeGhostTransfer(units, usdc) ==
    /\ ghostPc = "idle"
    /\ toAddressOk' = TRUE
    /\ ghostAmount' = units
    /\ isUsdc' = usdc
    /\ privateBalance' = NotRead
    /\ shieldSignature' = FALSE
    /\ clientCalls' = << >>
    /\ depositOutcome' = "none"
    /\ IF units < minAmount(usdc)
       THEN GhostReturns(GhostFailure("BELOW_MINIMUM", FALSE))
       ELSE ghostPc' = "loading" /\ ghostResult' = NoGhostResult
    /\ UNCHANGED outsideGhost

\* the SDK is loaded, the client is built and the balance is asked for
loadPrivacyCash ==
    /\ ghostPc = "loading"
    /\ ghostPc' = "awaitBalance"
    /\ UNCHANGED << toAddressOk, ghostAmount, isUsdc, privateBalance, shieldSignature,
                    clientCalls, depositOutcome, ghostResult >>
    /\ UNCHANGED outsideGhost

\* loadPrivacyCash, the constructor or the balance read throws: outer catch
GhostSdkThrows ==
    /\ ghostPc \in {"loading", "awaitBalance"}
    /\ GhostReturns(GhostFailure("SDK_ERROR", FALSE))
    /\ UNCHANGED << toAddressOk, ghostAmount, isUsdc, privateBalance, shieldSignature,
                    clientCalls, depositOutcome >>
    /\ UNCHANGED outsideGhost

\* the balance arrives; the deposit is called when it is below the amount,
\* the withdraw otherwise
getPrivateBalance(read) ==
    /\ ghostPc = "awaitBalance"
    /\ privateBalance' = OrZero(read)
    /\ IF NeedsShield(OrZero(read), ghostAmount)
       THEN /\ clientCalls' = Append(clientCalls, "deposit")
            /\ ghostPc' = "awaitDeposit"
       ELSE /\ clientCalls' = Append(clientCalls, "withdraw")
            /\ ghostPc' = "awaitWithdraw"
    /\ UNCHANGED << toAddressOk, ghostAmount, isUsdc, shieldSignature, depositOutcome,
                    ghostResult >>
    /\ UNCHANGED outsideGhost

\* deposit / depositUSDC resolves (depositResult?.tx may be undefined); the
\* three-second wait for the indexer starts
DepositResolves(tx) ==
    /\ ghostPc = "awaitDeposit"
    /\ depositOutcome' = "resolved"
    /\ shieldSignature' = tx
    /\ ghostPc' = "waiting"
    /\ UNCHANGED << toAddressOk, ghostAmount, isUsdc, privateBalance, clientCalls, ghostResult >>
    /\ UNCHANGED outsideGhost

\* deposit / depositUSDC throws
DepositThrows ==
    /\ ghostPc = "awaitDeposit"
    /\ depositOutcome' = "threw"
    /\ GhostReturns(GhostFailure("SHIELDING_FAILED", FALSE))
    /\ UNCHANGED << toAddressOk, ghostAmount, isUsdc, privateBalance, shieldSignature,
                    clientCalls >>
    /\ UNCHANGED outsideGhost

\* the wait ends and the withdraw is called
IndexerWaitEnds ==
    /\ ghostPc = "waiting"
    /\ clientCalls' = Append(clientCalls, "withdraw")
    /\ ghostPc' = "awaitWithdraw"
    /\ UNCHANGED << toAddressOk, ghostAmount, isUsdc, privateBalance, shieldSignature,
                    depositOutcome, ghostResult >>
    /\ UNCHANGED outsideGhost

WithdrawResolves ==
    /\ ghostPc = "awaitWithdraw"
    /\ GhostReturns(GhostSuccess(shieldSignature))
    /\ UNCHANGED << toAddressOk, ghostAmount, isUsdc, privateBalance, shieldSignature,
                    clientCalls, depositOutcome >>
    /\ UNCHANGED outsideGhost

WithdrawThrows ==
    /\ ghostPc = "awaitWithdraw"
    /\ GhostReturns(GhostFailure("WITHDRAW_FAILED", shieldSignature))
    /\ UNCHANGED << toAddressOk, ghostAmount, isUsdc, privateBalance, shieldSignature,
                    clientCalls, depositOutcome >>
    /\ UNCHANGED outsideGhost

\* the caller takes the result; the next transfer may start
GhostDone ==
    /\ ghostPc = "done"
    /\ ghostPc' = "idle"
    /\ UNCHANGED << toAddressOk, ghostAmount, isUsdc, privateBalance, shieldSignature,
                    clientCalls, depositOutcome, ghostResult >>
    /\ UNCHANGED outsideGhost

GhostNext ==
    \/ \E units \in GhostAmounts, usdc \in BOOLEAN : ExecuteGhostTransferInvalidRecipient(units, usdc)
    \/ \E units \in GhostAmounts, usdc \in BOOLEAN : executeGhostTransfer(units, usdc)
    \/ loadPrivacyCash
    \/ GhostSdkThrows
    \/ \E read \in BalanceReads : getPrivateBalance(read)
    \/ \E tx \in BOOLEAN : DepositResolves(tx)
    \/ DepositThrows
    \/ IndexerWaitEnds
    \/ WithdrawResolves
    \/ WithdrawThrows
    \/ GhostDone

(***************************************************************************)
(* Properties of createSquad                                               *)
(***************************************************************************)
SqReturned == sqPc = "done" /\ sqResult.kind = "ok"
Recovered == {"RECOVERED", "RECOVERED_6014"}
\* the chain account at a returned multisig address
AccountAt(multisigPda) == accounts[multisigPda[3]]

\* C1: once a createSquad(A, B) call has returned an address pair, every
\* later createSquad(A, B) call that returns gives the same multisigPda and
\* vaultPda with signature "RECOVERED", whatever happened to the attempts of
\* the first call.
C1_IdempotentProvisioning ==
    (SqReturned /\ provisioned[sqArgs.member2] # << >>)
        => /\ sqResult.multisigPda = provisioned[sqArgs.member2]
           /\ sqResult.vaultPda = getVaultPda(provisioned[sqArgs.member2])
           /\ sqResult.signature = "RECOVERED"

\* C2: whenever createSquad(A, B, threshold) returns, created or recovered,
\* the multisig at the returned address has A with all permissions, B with
\* vote+initiate and the requested threshold.
C2_RequestedConfiguration ==
    SqReturned =>
        AccountAt(sqResult.multisigPda) = MultisigAccount(sqArgs.member2, sqArgs.threshold)

C4_SuccessOnlyAfterVisible ==
    (SqReturned /\ sqResult.signature = "SIGNATURE") => sawCreated

(***************************************************************************)
(* Properties of getNextTransactionIndex and of the builders               *)
(***************************************************************************)
Allocated == prPc = "allocated"
BuilderReturned == prPc = "done" /\ prResult.kind = "ok" /\ callKind # "none"
VaultWrite(index) == [write |-> "vaultTransactionCreate", index |-> index]
ProposalWrite(index) == [write |-> "proposalCreate", index |-> index]

\* C5: with the counter read as c, getNextTransactionIndex probes c+1, c+2,
\* ... in order, at most 10 of them, and returns the first probed index
\* that had no account: the result n lies in c+1 .. c+10, every index
\* from c+1 below n was probed and occupied, and n was probed and free.
C5_SmallestFreeProbedIndex ==
    /\ Len(probes) <= PROBE_LIMIT
    /\ \A k \in 1 .. Len(probes) : probes[k].index = currentIndex + k
    /\ \A k \in 1 .. Len(probes) - 1 : probes[k].found
    /\ Allocated =>
          /\ prResult.value >= currentIndex + 1
          /\ prResult.value <= currentIndex + PROBE_LIMIT
          /\ probes # << >>
          /\ probes[Len(probes)] = [index |-> prResult.value, found |-> FALSE]

\* C5 witness: the allocator returned an index after probing an occupied one
C5_Witness ==
    /\ Allocated
    /\ Len(probes) > 1
    /\ prResult.value = currentIndex + Len(probes)

\* C6: over the rounds against one multisig (getNextTransactionIndex, then a
\* builder with the returned index), the index of a round whose builder call
\* returned is greater than the index of every earlier such round.
C6_IndexMonotonicity ==
    (BuilderReturned /\ inRound /\ lastSuccess # 0) => transactionIndex > lastSuccess

\* C7: an index whose vault transaction was created by a builder whose
\* proposal creation then failed is never returned by a later
\* getNextTransactionIndex call, read-path lag included.
C7_OrphanContainment ==
    Allocated => prResult.value \notin orphans

\* C8: the proposal is submitted only after the vault transaction was
\* submitted and its confirmation awaited; the two writes are never in
\* flight together, both carry the call's transaction index, and no proposal
\* is submitted when the vault transaction's submission failed.
C8_SequentialWrites ==
    /\ proposalTx # "none" => vaultTx \in {"ok", "err"}
    /\ ~(vaultTx = "inflight" /\ proposalTx = "inflight")
    /\ sent \in {<< >>, << VaultWrite(transactionIndex) >>,
                 << VaultWrite(transactionIndex), ProposalWrite(transactionIndex) >>}
    /\ vaultTx = "failed" => (proposalTx = "none" /\ sent = << >>)

\* C8 witness: the proposal is in flight after the vault transaction landed
C8_Witness ==
    /\ vaultTx = "ok"
    /\ proposalTx = "inflight"
    /\ sent = << VaultWrite(transactionIndex), ProposalWrite(transactionIndex) >>

\* C9: a builder attempts a write only if one of the at most 15 reads of its
\* poll returned the multisig account; a multisig that never becomes visible
\* leads to no write.
C9_NoWriteWithoutVisibleMultisig ==
    sent # << >> => sawMultisig

\* C10: createTransferProposal with an amount above the balance it read
\* throws "Insufficient vault balance" with nothing sent; with
\* balance >= amount the balance check does not reject; nothing is sent
\* before the balance was read.
C10_InsufficientBalanceRejected ==
    callKind = "transfer" =>
        IF vaultBalance = NotRead
        THEN sent = << >> /\ vaultTx = "none" /\ proposalTx = "none"
        ELSE IF vaultBalance < amountLamports
        THEN /\ prPc = "done"
             /\ prResult = PrThrown("Insufficient vault balance")
             /\ sent = << >> /\ vaultTx = "none" /\ proposalTx = "none"
        ELSE /\ prPc # "balance"
             /\ prResult.error # "Insufficient vault balance"

\* C10 witness: a transfer above the balance was rejected
C10_Witness ==
    /\ callKind = "transfer"
    /\ vaultBalance # NotRead
    /\ vaultBalance < amountLamports
    /\ prResult = PrThrown("Insufficient vault balance")

(***************************************************************************)
(* Properties of the assembly in createSwapProposal                        *)
(***************************************************************************)
\* the addresses flagged as signer in at least one of the instructions
SignersOf(instructions) ==
    UNION { { instructions[i].keys[k].pubkey :
                k \in { j \in 1 .. Len(instructions[i].keys) : instructions[i].keys[j].isSigner } } :
            i \in 1 .. Len(instructions) }

\* C11: the ephemeralSigners count given to vaultTransactionCreate is the
\* number of distinct addresses that are a signer in at least one instruction
\* of the assembled bundle and are neither the vault nor the creator.
C11_EphemeralSignerCount ==
    asmPc = "built" =>
        vaultTxArgs.ephemeralSigners =
            Cardinality(SignersOf(allInstructions) \ {VaultPda, Creator})

\* C11 witness: the vault, the creator and an address that signs in two
\* instructions are among the signers, and two ephemeral signers are declared
C11_Witness ==
    /\ asmPc = "built"
    /\ {VaultPda, Creator} \subseteq SignersOf(allInstructions)
    /\ \E i, j \in 1 .. Len(allInstructions) :
          /\ i # j
          /\ "W1" \in SignersOf(<< allInstructions[i] >>)
          /\ "W1" \in SignersOf(<< allInstructions[j] >>)
    /\ vaultTxArgs.ephemeralSigners = 2

\* the place of each group in the assembled list
AfterComputeBudget == Len(swapInstructions.computeBudgetInstructions)
AfterSetup == AfterComputeBudget + Len(swapInstructions.setupInstructions)
AfterSwap == AfterSetup + 1
AfterCleanup ==
    AfterSwap + (IF swapInstructions.cleanupInstruction # NoInstruction THEN 1 ELSE 0)
AfterOther == AfterCleanup + Len(swapInstructions.otherInstructions)

\* C12: the instructions of the vault transaction are the converted
\* compute-budget instructions, then the setup instructions, then the swap
\* instruction, then the cleanup instruction when present, then the other
\* instructions, each group in its order; the length is the sum of the
\* group lengths.
C12_InstructionOrder ==
    asmPc = "built" =>
        LET all == vaultTxArgs.instructions IN
        /\ Len(all) = AfterOther
        /\ \A k \in 1 .. AfterComputeBudget :
              all[k] = convertSwapInstruction(swapInstructions.computeBudgetInstructions[k])
        /\ \A k \in 1 .. Len(swapInstructions.setupInstructions) :
              all[AfterComputeBudget + k] =
                  convertSwapInstruction(swapInstructions.setupInstructions[k])
        /\ all[AfterSwap] = convertSwapInstruction(swapInstructions.swapInstruction)
        /\ swapInstructions.cleanupInstruction # NoInstruction =>
              all[AfterCleanup] = convertSwapInstruction(swapInstructions.cleanupInstruction)
        /\ \A k \in 1 .. Len(swapInstructions.otherInstructions) :
              all[AfterCleanup + k] =
                  convertSwapInstruction(swapInstructions.otherInstructions[k])

\* C12 witness: every group is present, the groups differ and the two setup
\* instructions differ
C12_Witness ==
    /\ asmPc = "built"
    /\ Len(swapInstructions.computeBudgetInstructions) = 1
    /\ Len(swapInstructions.setupInstructions) = 2
    /\ swapInstructions.setupInstructions[1] # swapInstructions.setupInstructions[2]
    /\ swapInstructions.cleanupInstruction # NoInstruction
    /\ swapInstructions.cleanupInstruction # swapInstructions.swapInstruction
    /\ Len(swapInstructions.otherInstructions) = 1
    /\ Len(vaultTxArgs.instructions) = 6

(***************************************************************************)
(* Properties of executeSwap and executeSwapJito                           *)
(***************************************************************************)
\* the result came from executeSwap, called directly or by the fallback
StandardReturned == exPc = "done" /\ pollEnd = "none"
\* the promise that settled first
FirstSettled == IF settled = << >> THEN "none" ELSE settled[1]

\* C13: executeSwap always ends with a result; success is true only if the
\* confirmation settled before the timeout and carried no error; a
\* confirmation with an on-chain error gives success=false, TX_FAILED with
\* the signature; if the timeout settles first the result is success=false.
C13_StandardPathResult ==
    /\ exPc = "done" => exResult # NoSwapResult
    /\ StandardReturned =>
          /\ exResult.success => (FirstSettled = "confirmation" /\ confirmation = "ok")
          /\ (FirstSettled = "confirmation" /\ confirmation = "err") =>
                exResult = SwapResult(FALSE, exSignature, "Transaction failed on-chain",
                                      "TX_FAILED")
          /\ (FirstSettled = "confirmation" /\ confirmation = "err") => exSignature = "SIG"
          /\ FirstSettled = "timeout" => ~exResult.success

\* C13 witness: the timeout won the race, the confirmation resolved without
\* error after it, and the result is a failure
C13_Witness ==
    /\ StandardReturned
    /\ settled = << "timeout", "confirmation" >>
    /\ confirmation = "ok"
    /\ ~exResult.success

\* C14: the relay endpoints are tried one at a time in their order up to
\* the first that accepts; the direct submission is made exactly when all
\* were tried and none accepted; polling starts only after a relay accepted
\* or the direct submission was made.
C14_RelaysThenDirect ==
    /\ Len(relayOffers) <= Len(JITO_TX_ENDPOINTS)
    /\ \A k \in 1 .. Len(relayOffers) : relayOffers[k] = JITO_TX_ENDPOINTS[k]
    /\ relayAccepted # 0 => relayAccepted = Len(relayOffers)
    /\ direct # "none" <=>
          /\ relayAccepted = 0
          /\ Len(relayOffers) = Len(JITO_TX_ENDPOINTS)
          /\ exPc \notin {"relay", "afterRelays"}
    /\ (exPc = "poll" \/ polls > 0) => (relayAccepted # 0 \/ direct = "sent")

\* C14 witness: the third endpoint accepted, nothing was sent directly and
\* polling has started
C14_Witness ==
    /\ exPc = "poll"
    /\ polls > 0
    /\ relayOffers = SubSeq(JITO_TX_ENDPOINTS, 1, 3)
    /\ relayAccepted = 3
    /\ direct = "none"

\* C15: when the polling window ends without a confirmed or finalized status
\* read, the result is success with the signature and no error code; a
\* polling error or a status that is not confirmed neither ends the polling
\* nor gives a failure; at most 8000 / 200 reads are made.
C15_OptimisticSuccess ==
    /\ pollEnd = "expired" =>
          /\ exResult = SwapResult(TRUE, exSignature, "", "")
          /\ exSignature = "SIG"
          /\ elapsed >= POLL_TIMEOUT_MS
          /\ lastStatus.confirmationStatus \notin {"confirmed", "finalized"}
    /\ pollEnd = "status" => lastStatus.confirmationStatus \in {"confirmed", "finalized"}
    /\ exPc = "poll" =>
          /\ exResult = NoSwapResult
          /\ lastStatus.confirmationStatus \notin {"confirmed", "finalized"}
    /\ polls <= POLL_TIMEOUT_MS \div POLL_INTERVAL_MS

\* C15 witness: the window ended after the last read gave a processed status
\* that carries an error
C15_Witness ==
    /\ pollEnd = "expired"
    /\ polls > 1
    /\ lastStatus.confirmationStatus = "processed"
    /\ lastStatus.err # NoErr
    /\ exResult.success

\* C16: for a confirmed or finalized status, an error with the slippage code
\* 6024 gives SLIPPAGE_EXCEEDED with the fixed message and the signature,
\* every other error gives TX_FAILED, and no error gives success.
C16_StatusDecoding ==
    pollEnd = "status" =>
        exResult =
            IF lastStatus.err = NoErr
            THEN SwapResult(TRUE, exSignature, "", "")
            ELSE IF lastStatus.err.custom = SLIPPAGE_CODE
            THEN SwapResult(FALSE, exSignature, "Price moved too much - slippage exceeded",
                            "SLIPPAGE_EXCEEDED")
            ELSE SwapResult(FALSE, exSignature, "Transaction failed on-chain", "TX_FAILED")

(***************************************************************************)
(* Properties of executeSwapProposal                                       *)
(***************************************************************************)
\* the tables whose fetch gave an account, in the order of the addresses
RECURSIVE FetchedTables(_, _)
FetchedTables(addresses, k) ==
    IF k > Len(addresses) THEN << >>
    ELSE (IF addresses[k] = "table" THEN << TableAccount(k) >> ELSE << >>)
             \o FetchedTables(addresses, k + 1)

\* C17: for every list of lookup-table addresses the call reaches
\* vaultTransactionExecute; the resolved set holds the tables that were
\* fetched and leaves out those whose fetch threw or gave nothing; the call
\* throws only when vaultTransactionExecute threw.
C17_TablesNeverAbort ==
    /\ espPc = "done" => execution \in {"ok", "threw"}
    /\ espResult.kind = "error" <=> execution = "threw"
    /\ espPc \in {"execute", "done"} =>
          addressLookupTableAccounts = FetchedTables(addressLookupTableAddresses, 1)
    /\ execution = "ok" => espResult.kind = "ok"

\* C17 witness: a table whose fetch threw and one that resolved to nothing
\* were left out, one was resolved, and the execution was submitted
C17_Witness ==
    /\ espPc = "done"
    /\ execution = "ok"
    /\ \E i, j, k \in 1 .. Len(addressLookupTableAddresses) :
          /\ addressLookupTableAddresses[i] = "fetch throws"
          /\ addressLookupTableAddresses[j] = "null"
          /\ addressLookupTableAddresses[k] = "table"
    /\ Len(addressLookupTableAccounts) = 1

(***************************************************************************)
(* Properties of requestServerApproval                                     *)
(***************************************************************************)
\* the response was read: the call ended after the fetch resolved
ApprovalAnswered == apiPc = "done" /\ apiResponse # NoResponse

\* C18: the body is returned only for an OK response; a non-OK response
\* flagged as geofence error with a distance raises a GeoFenceError with that
\* distance and the required range (the default when the body has none);
\* every other non-OK response raises a plain error.
C18_TypedRejection ==
    /\ apiResult.kind = "returned" =>
          /\ apiResponse.ok
          /\ apiResult.data = apiResponse.body
    /\ (ApprovalAnswered /\ ~apiResponse.ok) => apiResult.kind \in {"GeoFenceError", "Error"}
    /\ (ApprovalAnswered /\ ~apiResponse.ok /\ apiResponse.json) =>
          IF apiResponse.body.geoError /\ apiResponse.body.distance # Undefined
          THEN /\ apiResult.kind = "GeoFenceError"
               /\ apiResult.distance = apiResponse.body.distance
               /\ apiResult.requiredRange =
                      IF apiResponse.body.requiredRange # Undefined
                      THEN apiResponse.body.requiredRange
                      ELSE << DEFAULT_REQUIRED_RANGE >>
          ELSE apiResult.kind = "Error"
    /\ apiPc = "done" => apiResult # NoApiResult

\* C18 witness: a geofence rejection that measured distance 0 raised a
\* GeoFenceError with the range the service named
C18_Witness ==
    /\ ApprovalAnswered
    /\ ~apiResponse.ok
    /\ apiResult.kind = "GeoFenceError"
    /\ apiResult.distance = << 0 >>
    /\ apiResult.requiredRange = << 10 >>

(***************************************************************************)
(* Error containment                                                       *)
(***************************************************************************)
\* C19: while the multisig account exists on chain and a read does not serve
\* it yet, getNextTransactionIndex does not end with an error for that
\* reason: its not-found error never reaches the caller.
C19_LagAbsorbed ==
    ~(prPc = "done" /\ prResult = PrThrown("Multisig account not found"))

\* C20: a createSquad call that used up all MAX_ATTEMPTS create keys fails
\* with the explicit no-free-slot error, not with the error of one attempt.
C20_ExplicitNoFreeSlot ==
    (sqPc = "done" /\ sqResult.kind = "error" /\ attempt = MAX_ATTEMPTS)
        => sqResult.error = "Failed to find a valid Vault slot"

\* C21: a failure result of executeSwap delivered after sendTransaction had
\* returned a signature (the confirmation threw, or the timeout won the
\* race) carries that signature.
C21_SignaturePreserved ==
    (StandardReturned /\ exSignature # "" /\ ~exResult.success)
        => exResult.signature = exSignature

\* C24: an on-chain failure whose error carries the slippage code is
\* reported as SLIPPAGE_EXCEEDED by executeSwapJito and by executeSwap alike;
\* TX_FAILED is kept for errors that are not recognizable.
C24_SpecificCodes ==
    /\ (pollEnd = "status" /\ lastStatus.err.custom = SLIPPAGE_CODE)
          => exResult.errorCode = "SLIPPAGE_EXCEEDED"
    /\ (StandardReturned /\ raceWinner = "confirmation" /\ confirmation = "err"
          /\ valueErr.custom = SLIPPAGE_CODE)
          => exResult.errorCode = "SLIPPAGE_EXCEEDED"

\* the multisig accounts on chain
CreatedMultisigs == { i \in Attempts : accounts[i].owner = SQUADS_PROGRAM_ID }

\* C25: the creations submitted by one createSquad call bring at most one
\* multisig account into existence, also when a creation that the call
\* treated as failed lands later.
C25_AtMostOneCreated ==
    sqCalls <= 1 => Cardinality(CreatedMultisigs) <= 1

\* C26: a builder returns only if its vault transaction and its proposal
\* were both confirmed without an on-chain error, and after a vault
\* transaction confirmed with an error no proposal is submitted.
C26_OnlyConfirmedWrites ==
    /\ BuilderReturned => (vaultTx = "ok" /\ proposalTx = "ok")
    /\ vaultTx = "err" => proposalTx = "none"

(***************************************************************************)
(* Termination of the provisioning and proposal calls                      *)
(***************************************************************************)
\* a createSquad call is between its entry and its return or throw
SqRunning == sqPc \notin {"idle", "done"}
\* an allocator or builder call is between its entry and its return or throw
PrRunning == prPc \notin {"idle", "done", "allocated"}

\* what is left of a createSquad call: the attempts not yet started, then
\* the position inside the attempt, then the polls left
SqMeasure ==
    IF ~SqRunning THEN 0
    ELSE (MAX_ATTEMPTS - attempt) * 100 +
         (CASE sqPc = "check" -> 60
            [] sqPc = "send" -> 50
            [] sqPc = "confirm" -> 40
            [] sqPc = "verify" -> 20 + verifyRetries
            [] sqPc = "verify6014" -> 20 + retries)

\* what is left of an allocator or builder call
PrMeasure ==
    CASE prPc = "probe" -> 100 + (PROBE_LIMIT - offset)
      [] prPc = "poll" -> 60 + pollRetries
      [] prPc = "balance" -> 50
      [] prPc = "sendVault" -> 40
      [] prPc = "confirmVault" -> 30
      [] prPc = "sendProposal" -> 20
      [] prPc = "confirmProposal" -> 10
      [] OTHER -> 0

\* a step of the running createSquad call itself
SqStep == SqRunning /\ << sqPc, attempt, verifyRetries, retries >>' #
                       << sqPc, attempt, verifyRetries, retries >>
\* a step of the running allocator or builder call itself
PrStep == PrRunning /\ << prPc, offset, pollRetries >>' # << prPc, offset, pollRetries >>

\* C23: every loop of createSquad, of the builders and of the allocator is
\* bounded: at most MAX_ATTEMPTS attempts, in an attempt one submission and
\* then at most VERIFY_RETRIES visibility polls or RETRIES_6014 ownership
\* polls, at most POLL_RETRIES multisig polls, at most PROBE_LIMIT probes;
\* every step of a call brings it nearer to its end, and every call that
\* started ends by returning or throwing.
C23_BoundedLoops ==
    /\ [](/\ attempt \in 0 .. MAX_ATTEMPTS
          /\ SqRunning => attempt < MAX_ATTEMPTS
          /\ verifyRetries \in 0 .. VERIFY_RETRIES
          /\ retries \in 0 .. RETRIES_6014
          /\ pollRetries \in 0 .. POLL_RETRIES
          /\ offset \in 0 .. PROBE_LIMIT
          /\ Len(probes) <= PROBE_LIMIT)
    /\ [][/\ SqStep => SqMeasure' < SqMeasure
          /\ (SqStep /\ sqPc' = "send") => (sqPc = "check" /\ attempt' = attempt)
          /\ (SqStep /\ sqPc = "verify" /\ sqPc' = "verify") =>
                verifyRetries' = verifyRetries - 1
          /\ (SqStep /\ sqPc = "verify6014" /\ sqPc' = "verify6014") =>
                retries' = retries - 1
          /\ PrStep => PrMeasure' < PrMeasure
          /\ (PrStep /\ prPc = "poll" /\ prPc' = "poll") => pollRetries' = pollRetries - 1
          /\ (PrStep /\ prPc = "probe" /\ prPc' = "probe") =>
                (offset' = offset + 1 /\ Len(probes') = offset')]_vars
    /\ SqRunning ~> (sqPc = "done")
    /\ PrRunning ~> (prPc \in {"done", "allocated"})

\* C23 witness: createSquad is in its last attempt and has polled for the
\* new account all but one of the VERIFY_RETRIES times without seeing it
C23_Witness ==
    /\ sqPc = "verify"
    /\ attempt = MAX_ATTEMPTS - 1
    /\ verifyRetries = 1
    /\ ~sawCreated

(***************************************************************************)
(* Properties of the create-key seeds                                      *)
(***************************************************************************)
\* the owner's bytes with the byte at position i mod 32 complemented
FlippedAt(i) ==
    [k \in 1 .. KEY_LENGTH |->
        IF k = (i % KEY_LENGTH) + 1 THEN 255 - owner[k] ELSE owner[k]]

\* C22: the seed of attempt i is the owner's 32 key bytes with the byte at
\* position i mod 32 XORed with 0xFF and every other byte unchanged, whatever
\* the earlier attempts did; the seeds of one call are pairwise distinct and
\* differ from the owner's bytes; a second call for the same owner walks the
\* same sequence.
C22_SeedOfAttempt ==
    /\ \A k \in 1 .. Len(walked) : walked[k] = FlippedAt(k - 1)
    /\ \A k \in 1 .. Len(walked) : walked[k] # owner
    /\ \A j, k \in 1 .. Len(walked) : j # k => walked[j] # walked[k]
    /\ \A k \in 1 .. Len(walked) :
          k <= Len(previousWalk) => walked[k] = previousWalk[k]

\* C22 witness: a second call walked all MAX_ATTEMPTS seeds after a first
\* call that also did
C22_Witness ==
    /\ seedCalls = 2
    /\ Len(walked) = MAX_ATTEMPTS
    /\ Len(previousWalk) = MAX_ATTEMPTS
    /\ seed = walked[MAX_ATTEMPTS]

(***************************************************************************)
(* Properties of executeSwapWithFallback                                   *)
(***************************************************************************)
LegacyRequests == {"legacyQuote", "legacySwap", "legacySend"}
\* the positions of the legacy requests among the requests of the call
LegacyPositions == { k \in 1 .. Len(requests) : requests[k] \in LegacyRequests }

\* C27: the Ultra order is the first request of a call; a legacy request is
\* made only after executeUltraSwapFull has returned a failure, and no Ultra
\* request follows it; when Ultra succeeds its result is what the call
\* returns and no legacy request is made; the call always ends with a
\* result, which is a failure unless one of the two paths succeeded.
C27_UltraThenLegacy ==
    /\ requests # << >> => requests[1] = "ultraOrder"
    /\ \A k \in LegacyPositions :
          /\ ultraOutcome # NoSwapResult
          /\ ~ultraOutcome.success
          /\ \A j \in k .. Len(requests) : j \in LegacyPositions
    /\ ultraOutcome.success =>
          /\ LegacyPositions = {}
          /\ fbPc \in {"done", "idle"}
          /\ fbResult = ultraOutcome
    /\ fbPc = "done" => fbResult # NoSwapResult
    /\ (fbPc = "done" /\ fbResult.success) =>
          (ultraOutcome.success \/ legacyTx = "executed")

\* C27 witness: Ultra answered Failed, the legacy quote was obtained and the
\* legacy build threw: the call returned ALL_METHODS_FAILED
C27_Witness ==
    /\ fbPc = "done"
    /\ ultraOutcome.errorCode = "ULTRA_FAILED"
    /\ requests = << "ultraOrder", "ultraExecute", "legacyQuote", "legacySwap" >>
    /\ fbResult.errorCode = "ALL_METHODS_FAILED"
    /\ ~fbResult.success

\* C28: the Ultra transaction and the legacy transaction of one call are
\* never both executed on chain.
C28_SingleSwap ==
    ~(ultraTx = "executed" /\ legacyTx = "executed")

(***************************************************************************)
(* Properties of the subscription registry                                 *)
(***************************************************************************)
\* C29: after any sequence of calls the registry holds at most one id per
\* key, the listeners registered on the connection are exactly the ids the
\* registry holds, each under the kind and address of its key, and
\* getActiveSubscriptionCount is the number of keys subscribed.
C29_RegistryMatchesListeners ==
    /\ \A e1, e2 \in subscriptions : e1.key = e2.key => e1 = e2
    /\ listeners =
         { [id |-> e.id, kind |-> e.key[1], address |-> e.key[2]] : e \in subscriptions }
    /\ \A l1, l2 \in listeners : l1.id = l2.id => l1 = l2
    /\ getActiveSubscriptionCount = Cardinality({ e.key : e \in subscriptions })
    /\ getActiveSubscriptionCount = Cardinality(listeners)
    /\ replaced \cap { l.id : l \in listeners } = {}

\* C29 witness: the first listener, id 0, was replaced by a re-subscription
\* of its key while another key stays subscribed
C29_Witness ==
    /\ 0 \in replaced
    /\ getActiveSubscriptionCount = 2
    /\ Cardinality(listeners) = 2

(***************************************************************************)
(* Properties of executeGhostTransfer                                      *)
(***************************************************************************)
GhostCalled(name) == \E k \in 1 .. Len(clientCalls) : clientCalls[k] = name

\* C30: in executeGhostTransfer a deposit is made if and only if the private
\* balance read is below the requested amount; the deposit precedes the
\* withdraw; after a deposit that failed no withdraw is attempted and the
\* result is the failure SHIELDING_FAILED; an invalid recipient or an amount
\* below the minimum ends the call before any deposit or withdraw
C30_ShieldThenWithdraw ==
    /\ GhostCalled("deposit") <=> (privateBalance # NotRead /\ privateBalance < ghostAmount)
    /\ clientCalls \in {<< >>, << "deposit" >>, << "withdraw" >>, << "deposit", "withdraw" >>}
    /\ depositOutcome = "threw" =>
          /\ ~GhostCalled("withdraw")
          /\ ghostPc \in {"done", "idle"}
          /\ ghostResult = GhostFailure("SHIELDING_FAILED", FALSE)
    /\ (~toAddressOk \/ ghostAmount < minAmount(isUsdc)) =>
          /\ clientCalls = << >>
          /\ ghostPc \in {"done", "idle"}
          /\ ~ghostResult.success
          /\ ghostPc = "done" => ghostResult.errorCode \in {"SDK_ERROR", "BELOW_MINIMUM"}

\* a transfer that read a balance below the amount, called the deposit, saw
\* it throw and returned SHIELDING_FAILED
C30_Witness ==
    /\ ghostPc = "done"
    /\ depositOutcome = "threw"
    /\ clientCalls = << "deposit" >>
    /\ privateBalance < ghostAmount
    /\ ghostResult.errorCode = "SHIELDING_FAILED"

\* the provisioning subsystem at rest
SqQuiet ==
    /\ accounts = [i \in Attempts |-> NoAccount]
    /\ visible = [i \in Attempts |-> FALSE]
    /\ inflight = [i \in Attempts |-> NoTx]
    /\ sqPc = "idle"
    /\ attempt = 0
    /\ sqArgs = NoTx
    /\ txStatus = "none"
    /\ verifyRetries = 0
    /\ retries = 0
    /\ lastError = ""
    /\ sqResult = NoResult
    /\ seenSquads = {}
    /\ skipped = {}
    /\ sawCreated = FALSE
    /\ provisioned = [m \in Members |-> << >>]
    /\ sqCalls = 0
    /\ sqFaults = 0

\* the proposal subsystem at rest
PrRest ==
    /\ msVisible = FALSE
    /\ txIndex = 0
    /\ visIndex = 0
    /\ visTop = 0
    /\ proposals = {}
    /\ lateTxs = {}
    /\ PrQuiet
    /\ lastSuccess = 0
    /\ orphans = {}
    /\ prRounds = 0
    /\ prFaults = 0

\* the assembly part of createSwapProposal not entered
AsmRest ==
    /\ swapInstructions = NoSwapInstructions
    /\ asmPc = "idle"
    /\ allInstructions = << >>
    /\ ephemeralSignersNeeded = 0
    /\ seenSigners = {}
    /\ vaultTxArgs = NoVaultTxArgs

\* no seed derived
SeedRest ==
    /\ owner = [k \in 1 .. KEY_LENGTH |-> 0]
    /\ seedPc = "idle"
    /\ seedI = 0
    /\ seed = NoSeed
    /\ walked = << >>
    /\ previousWalk = << >>
    /\ seedCalls = 0

\* createSquad calls of one owner
SquadInit == SqInit /\ PrRest /\ AsmRest /\ ExInit /\ EspInit /\ ApiInit /\ SeedRest /\ FbInit /\ SubInit /\ GhostInit
SquadSpec == SquadInit /\ [][SqNext]_vars

\* allocation and proposal building against one multisig
ProposalInit == PrInit /\ SqQuiet /\ AsmRest /\ ExInit /\ EspInit /\ ApiInit /\ SeedRest /\ FbInit /\ SubInit /\ GhostInit
ProposalSpec == ProposalInit /\ [][PrNext]_vars

\* the instruction bundle of one createSwapProposal call
AssemblyInit == AsmInit /\ SqQuiet /\ PrRest /\ ExInit /\ EspInit /\ ApiInit /\ SeedRest /\ FbInit /\ SubInit /\ GhostInit
AssemblySpec == AssemblyInit /\ [][AsmNext]_vars

\* swap executions on the standard and on the relay path
ExecutionInit == ExInit /\ SqQuiet /\ PrRest /\ AsmRest /\ EspInit /\ ApiInit /\ SeedRest /\ FbInit /\ SubInit /\ GhostInit
ExecutionSpec == ExecutionInit /\ [][ExNext]_vars

\* one executeSwapProposal call
SwapProposalInit == EspInit /\ SqQuiet /\ PrRest /\ AsmRest /\ ExInit /\ ApiInit /\ SeedRest /\ FbInit /\ SubInit /\ GhostInit
SwapProposalSpec == SwapProposalInit /\ [][EspNext]_vars

\* one requestServerApproval call
ApprovalInit == ApiInit /\ SqQuiet /\ PrRest /\ AsmRest /\ ExInit /\ EspInit /\ SeedRest /\ FbInit /\ SubInit /\ GhostInit
ApprovalSpec == ApprovalInit /\ [][ApiNext]_vars

\* runs in which the calls of one of the two flows are made, createSquad or
\* the allocator and the builders, every call and every pending
\* transaction getting its turn
FlowInit == SquadInit \/ ProposalInit
FlowNext ==
    \/ PrRest /\ SqNext
    \/ SqQuiet /\ PrNext
FlowSpec == FlowInit /\ [][FlowNext]_vars /\ WF_vars(FlowNext)

\* the seeds of the createSquad calls of one owner
SeedRollInit == SeedInit /\ SqQuiet /\ PrRest /\ AsmRest /\ ExInit /\ EspInit /\ ApiInit /\ FbInit /\ SubInit /\ GhostInit
SeedSpec == SeedRollInit /\ [][SeedNext]_vars

\* executeSwapWithFallback calls
FallbackInit == FbInit /\ SqQuiet /\ PrRest /\ AsmRest /\ ExInit /\ EspInit /\ ApiInit /\ SeedRest /\ SubInit /\ GhostInit
FallbackSpec == FallbackInit /\ [][FbNext]_vars

\* calls on the subscription registry of one connection
RegistryInit ==
    SubInit /\ SqQuiet /\ PrRest /\ AsmRest /\ ExInit /\ EspInit /\ ApiInit /\ SeedRest /\ FbInit /\ GhostInit
SubscriptionSpec == RegistryInit /\ [][SubNext]_vars

GhostTransferInit ==
    GhostInit /\ SqQuiet /\ PrRest /\ AsmRest /\ ExInit /\ EspInit /\ ApiInit /\ SeedRest /\ FbInit /\ SubInit
GhostSpec == GhostTransferInit /\ [][GhostNext]_vars

Init == SqInit /\ PrInit /\ AsmInit /\ ExInit /\ EspInit /\ ApiInit /\ SeedInit /\ FbInit /\ SubInit /\ GhostInit
Next == SqNext \/ PrNext \/ AsmNext \/ ExNext \/ EspNext \/ ApiNext \/ SeedNext \/ FbNext \/ SubNext \/ GhostNext
Spec == Init /\ [][Next]_vars

====
